---- MODULE Spec2Model ----
(***************************************************************************)
(* A model of github.com/abiosoft/ishell: the line reader (reader.go), the *)
(* statement assembler and the dispatch loop (ishell.go), and the command  *)
(* tree (command.go).                                                      *)
(*                                                                         *)
(* Strings are sequences of one-character strings, so that the string      *)
(* functions the code calls are computed character by character.           *)
(***************************************************************************)
EXTENDS Integers, Sequences, FiniteSets, TLC

(***************************************************************************)
(* Bounds of the model.                                                    *)
(***************************************************************************)
\* Shell.readLine requests issued over one behaviour.
MaxReads == 3
\* Starts of the shell (Shell.Start) over one behaviour.
MaxRuns == 2
\* Lines read for one statement by Shell.read run on its own.
MaxLines == 4
\* Depth of the command trees built by AddCmd.
MaxDepth == 2
\* Words of an argument vector given to FindCmd.
MaxArgs == 3
\* Characters of a line buffer given to the completer.
MaxLine == 5
MaxLoops == 2
MaxCalls == 3
MaxOptions == 3

(***************************************************************************)
(* Strings (package strings).                                              *)
(***************************************************************************)
IsSpace(c) == c \in {" ", "\t", "\n", "\r"}

SubStr(s, i, j) == IF j < i THEN <<>> ELSE SubSeq(s, i, j)

HasPrefix(s, p) == Len(p) <= Len(s) /\ SubStr(s, 1, Len(p)) = p

HasSuffix(s, p) == Len(p) <= Len(s) /\ SubStr(s, Len(s) - Len(p) + 1, Len(s)) = p

\* strings.Index, 1-based; 0 when sub does not occur in s.
Index(s, sub) ==
    LET hits == {i \in 1..(Len(s) - Len(sub) + 1) : SubStr(s, i, i + Len(sub) - 1) = sub}
    IN IF hits = {} THEN 0 ELSE CHOOSE i \in hits : \A j \in hits : i <= j

Contains(s, sub) == Index(s, sub) # 0

\* strings.SplitN(s, sep, 2): one element when sep does not occur, else two.
SplitN2(s, sep) ==
    LET i == Index(s, sep)
    IN IF i = 0 THEN <<s>>
       ELSE <<SubStr(s, 1, i - 1), SubStr(s, i + Len(sep), Len(s))>>

TrimLeft(s) ==
    LET keep == {i \in 1..Len(s) : ~IsSpace(s[i])}
    IN IF keep = {} THEN <<>>
       ELSE SubStr(s, CHOOSE i \in keep : \A j \in keep : i <= j, Len(s))

TrimRight(s) ==
    LET keep == {i \in 1..Len(s) : ~IsSpace(s[i])}
    IN IF keep = {} THEN <<>>
       ELSE SubStr(s, 1, CHOOSE i \in keep : \A j \in keep : i >= j)

TrimSpace(s) == TrimLeft(TrimRight(s))

TrimSuffix(s, p) == IF HasSuffix(s, p) THEN SubStr(s, 1, Len(s) - Len(p)) ELSE s

\* strings.Replace(s, old, new, -1) for a non-empty old.
RECURSIVE Replace(_, _, _)
Replace(s, old, new) ==
    LET i == Index(s, old)
    IN IF i = 0 THEN s
       ELSE SubStr(s, 1, i - 1) \o new
            \o Replace(SubStr(s, i + Len(old), Len(s)), old, new)

(***************************************************************************)
(* shlex.Split (github.com/flynn-archive/go-shlex), the tokenizer ishell   *)
(* calls: words are separated by white space, single quotes quote          *)
(* literally, double quotes quote with backslash escapes, a backslash      *)
(* escapes the next character, # starts a comment that runs to the end of  *)
(* the line.  The result is [args, err]: the words read so far and "nil",  *)
(* or "tokenize" when the input ends inside quotes or after a backslash.   *)
(***************************************************************************)
RECURSIVE Lex(_, _, _, _, _)
Lex(s, i, state, cur, toks) ==
    IF i > Len(s)
    THEN CASE state = "start"   -> [args |-> toks, err |-> "nil"]
           [] state = "word"    -> [args |-> Append(toks, cur), err |-> "nil"]
           [] state = "comment" -> [args |-> toks, err |-> "nil"]
           [] OTHER             -> [args |-> toks, err |-> "tokenize"]
    ELSE LET c == s[i]
         IN CASE state = "start" ->
                   IF IsSpace(c) THEN Lex(s, i + 1, "start", <<>>, toks)
                   ELSE IF c = "\"" THEN Lex(s, i + 1, "dq", <<>>, toks)
                   ELSE IF c = "'" THEN Lex(s, i + 1, "sq", <<>>, toks)
                   ELSE IF c = "\\" THEN Lex(s, i + 1, "esc", <<>>, toks)
                   ELSE IF c = "#" THEN Lex(s, i + 1, "comment", <<>>, toks)
                   ELSE Lex(s, i + 1, "word", <<c>>, toks)
              [] state = "word" ->
                   IF IsSpace(c) THEN Lex(s, i, "start", <<>>, Append(toks, cur))
                   ELSE IF c = "\"" THEN Lex(s, i + 1, "dq", cur, toks)
                   ELSE IF c = "'" THEN Lex(s, i + 1, "sq", cur, toks)
                   ELSE IF c = "\\" THEN Lex(s, i + 1, "esc", cur, toks)
                   ELSE Lex(s, i + 1, "word", Append(cur, c), toks)
              [] state = "esc" -> Lex(s, i + 1, "word", Append(cur, c), toks)
              [] state = "escq" -> Lex(s, i + 1, "dq", Append(cur, c), toks)
              [] state = "dq" ->
                   IF c = "\"" THEN Lex(s, i + 1, "word", cur, toks)
                   ELSE IF c = "\\" THEN Lex(s, i + 1, "escq", cur, toks)
                   ELSE Lex(s, i + 1, "dq", Append(cur, c), toks)
              [] state = "sq" ->
                   IF c = "'" THEN Lex(s, i + 1, "word", cur, toks)
                   ELSE Lex(s, i + 1, "sq", Append(cur, c), toks)
              [] OTHER ->
                   IF c = "\n" THEN Lex(s, i + 1, "start", <<>>, toks)
                   ELSE Lex(s, i + 1, "comment", <<>>, toks)

Split(s) == Lex(s, 1, "start", <<>>, <<>>)

(***************************************************************************)
(* Command tree (command.go).  A Cmd is [Name, Func, children]; children   *)
(* maps a name to a Cmd; Func is "nil" or "fn".                            *)
(***************************************************************************)
NoChildren == <<>>

\* A walk that skips a word naming no child and goes on with the next one.
RECURSIVE FindWalkSkips(_, _, _, _, _)
FindWalkSkips(c, found, cmd, args, i) ==
    IF i > Len(args)
    THEN [found |-> found, cmd |-> cmd, args |-> <<>>]
    ELSE IF args[i] \in DOMAIN c.children
         THEN FindWalkSkips(c.children[args[i]], TRUE, c.children[args[i]], args, i + 1)
         ELSE IF found /\ i < Len(args) /\ args[i + 1] \in DOMAIN c.children
              THEN FindWalkSkips(c, found, cmd, args, i + 1)
              ELSE [found |-> found, cmd |-> cmd, args |-> SubStr(args, i, Len(args))]

\* Cmd.FindCmd: the walk over args that starts at node c.  The result is
\* [found, cmd, args]: found is FALSE for the nil *Cmd.
RECURSIVE FindWalk(_, _, _, _, _)
FindWalk(c, found, cmd, args, i) ==
    IF i > Len(args)
    THEN [found |-> found, cmd |-> cmd, args |-> <<>>]
    ELSE IF args[i] \in DOMAIN c.children
         THEN FindWalk(c.children[args[i]], TRUE, c.children[args[i]], args, i + 1)
         ELSE [found |-> found, cmd |-> cmd, args |-> SubStr(args, i, Len(args))]

FindCmd(c, args) == FindWalk(c, FALSE, c, args, 1)

\* The commands of the modelled shell: "a" has a handler, "n" has none.
rootCmd ==
    [Name |-> <<>>, Func |-> "nil",
     children |-> (<<"a">> :> [Name |-> <<"a">>, Func |-> "fn", children |-> NoChildren])
               @@ (<<"n">> :> [Name |-> <<"n">>, Func |-> "nil", children |-> NoChildren])]

\* Shell.autoHelp as NewWithConfig sets it.
autoHelp == TRUE

\* strings.ToLower on the letters of the English alphabet.
UpperLetters ==
    <<"A", "B", "C", "D", "E", "F", "G", "H", "I", "J", "K", "L", "M",
      "N", "O", "P", "Q", "R", "S", "T", "U", "V", "W", "X", "Y", "Z">>
LowerLetters ==
    <<"a", "b", "c", "d", "e", "f", "g", "h", "i", "j", "k", "l", "m",
      "n", "o", "p", "q", "r", "s", "t", "u", "v", "w", "x", "y", "z">>
ToLower(w) ==
    [i \in 1..Len(w) |->
        IF \E j \in 1..26 : UpperLetters[j] = w[i]
        THEN LowerLetters[CHOOSE j \in 1..26 : UpperLetters[j] = w[i]]
        ELSE w[i]]
HelpWord == <<"h", "e", "l", "p">>

\* A dispatcher that prints the help text for "help" whatever autoHelp is.
handleCommandHelpAlways(root, ignoreCase, auto, str0) ==
    LET str == IF ignoreCase THEN [i \in 1..Len(str0) |-> ToLower(str0[i])] ELSE str0
        r == FindCmd(root, str)
    IN IF ~r.found
       THEN [handled |-> FALSE, to |-> "none", cmd |-> r.cmd, args |-> str, str |-> str]
       ELSE IF r.cmd.Func = "nil" \/ (Len(r.args) = 1 /\ r.args[1] = HelpWord)
            THEN [handled |-> TRUE, to |-> "help", cmd |-> r.cmd, args |-> r.args,
                  str |-> str]
            ELSE [handled |-> TRUE, to |-> "cmd", cmd |-> r.cmd, args |-> r.args,
                  str |-> str]

\* A dispatcher that never changes the case of a word.
handleCommandCaseSensitive(root, ignoreCase, auto, str) ==
    LET r == FindCmd(root, str)
    IN IF ~r.found
       THEN [handled |-> FALSE, to |-> "none", cmd |-> r.cmd, args |-> str, str |-> str]
       ELSE IF r.cmd.Func = "nil"
               \/ (auto /\ Len(r.args) = 1 /\ r.args[1] = HelpWord)
            THEN [handled |-> TRUE, to |-> "help", cmd |-> r.cmd, args |-> r.args,
                  str |-> str]
            ELSE [handled |-> TRUE, to |-> "cmd", cmd |-> r.cmd, args |-> r.args,
                  str |-> str]

\* Shell.handleCommand up to the call of the command's Func.  str is the
\* caller's slice, which the loop of line 235 writes to; "help" prints the
\* command's help text and "cmd" calls its Func with args.
handleCommand(root, ignoreCase, auto, str0) ==
    LET str == IF ignoreCase THEN [i \in 1..Len(str0) |-> ToLower(str0[i])] ELSE str0
        r == FindCmd(root, str)
    IN IF ~r.found
       THEN [handled |-> FALSE, to |-> "none", cmd |-> r.cmd, args |-> str, str |-> str]
       ELSE IF r.cmd.Func = "nil"
               \/ (auto /\ Len(r.args) = 1 /\ r.args[1] = HelpWord)
            THEN [handled |-> TRUE, to |-> "help", cmd |-> r.cmd, args |-> r.args,
                  str |-> str]
            ELSE [handled |-> TRUE, to |-> "cmd", cmd |-> r.cmd, args |-> r.args,
                  str |-> str]

\* handleInput up to the call of a handler: "generic" calls the NotFound
\* handler with the line, "nohandler" returns errNoHandler.
handleInput(root, ignoreCase, auto, genericSet, line0) ==
    LET h == handleCommand(root, ignoreCase, auto, line0)
    IN IF h.handled THEN h
       ELSE [h EXCEPT !.to = IF genericSet THEN "generic" ELSE "nohandler"]

\* handleInput in the shell of the run loop, which keeps the settings of
\* NewWithConfig: which handler the statement str reaches.
HandleInput(str, genericSet) ==
    LET h == handleInput(rootCmd, FALSE, autoHelp, genericSet, str)
    IN [to |-> h.to, args |-> h.args]

(***************************************************************************)
(* Statement assembly (Shell.read, Shell.readMultiLinesFunc).              *)
(***************************************************************************)
HereMark == <<"<", "<">>
Backslash == <<"\\">>
Newline == <<"\n">>

\* A closure that trims the line before it compares it with the token.
HeredocFTrimsLine(heredoc, tok, line) ==
    IF ~heredoc
    THEN IF Contains(line, HereMark)
         THEN LET t == TrimSpace(SplitN2(line, HereMark)[2])
              IN IF t # <<>>
                 THEN [cont |-> TRUE, heredoc |-> TRUE, tok |-> t]
                 ELSE [cont |-> HasSuffix(TrimSpace(line), Backslash),
                       heredoc |-> FALSE, tok |-> t]
         ELSE [cont |-> HasSuffix(TrimSpace(line), Backslash),
               heredoc |-> FALSE, tok |-> tok]
    ELSE [cont |-> TrimSpace(line) # tok, heredoc |-> TRUE, tok |-> tok]

\* The closure Shell.read passes to readMultiLinesFunc, with its captured
\* variables heredoc and eof (tok): [cont, heredoc, tok] after the call.
HeredocF(heredoc, tok, line) ==
    IF ~heredoc
    THEN IF Contains(line, HereMark)
         THEN LET t == TrimSpace(SplitN2(line, HereMark)[2])
              IN IF t # <<>>
                 THEN [cont |-> TRUE, heredoc |-> TRUE, tok |-> t]
                 ELSE [cont |-> HasSuffix(TrimSpace(line), Backslash),
                       heredoc |-> FALSE, tok |-> t]
         ELSE [cont |-> HasSuffix(TrimSpace(line), Backslash),
               heredoc |-> FALSE, tok |-> tok]
    ELSE [cont |-> line # tok, heredoc |-> TRUE, tok |-> tok]

\* Shell.read after readMultiLinesFunc has returned (lines, err):
\* [panic, args, err].  panic is the index out of range of
\* strings.SplitN(s[1], "\n", 2)[1].
ReadTail(lines, heredoc, tok, err) ==
    IF heredoc
    THEN LET s == SplitN2(lines, HereMark)
             r == Split(s[1])
             b == SplitN2(s[2], Newline)
         IN IF Len(b) < 2
            THEN [panic |-> TRUE, args |-> <<>>, err |-> err]
            ELSE [panic |-> FALSE,
                  args |-> Append(r.args, TrimSuffix(b[2], tok)),
                  err |-> IF r.err # "nil" THEN r.err ELSE err]
    ELSE LET r == Split(Replace(lines, <<"\\", "\n">>, <<" ", "\n">>))
         IN [panic |-> FALSE, args |-> r.args,
             err |-> IF r.err # "nil" THEN r.err ELSE err]

(***************************************************************************)
(* The shell as a state machine.                                           *)
(*                                                                         *)
(* Processes: the run loop (Shell.run, and the handler it calls), one      *)
(* statement goroutine per loop iteration (the go func of Shell.run that   *)
(* calls Shell.read), one reader goroutine per Shell.readLine call (go     *)
(* s.reader.readLine), and host goroutines that call Run, Stop, Close,     *)
(* Wait and ReadLine.                                                      *)
(***************************************************************************)
VARIABLES
    \* Shell
    active, haltChan, closedChans, interruptCount, eof, interrupt, generic,
    \* shellReader and its readline.Instance
    mutex, reading, readingMulti, scannerClosed,
    \* goroutines
    rl, sr, loopPc, runs, line, err, lineIds, hkind, hargs, hcount, hpc, cerr,
    hostPc, waitChan,
    \* output of the loop in its current iteration, and a panic of the process
    printed, crashed,
    \* counters of the requests and the physical reads made so far
    nReq, nReads,
    \* history: the interrupts read since the shell started or last read a
    \* line with no error, or -1 after a read that was neither
    streak,
    \* one call of Shell.read run on its own, line by line
    asm,
    \* a command tree under AddCmd and DeleteCmd
    tree,
    \* a shell's settings and the outcome of its latest Process call
    disp,
    \* one call of the completer: its arguments and its result
    comp,
    \* a shell under Start, Run and Stop: its flag, channel and loops
    life,
    \* the reader that fans one read out to its consumers
    fan,
    \* the reader under line reads and password reads
    rd,
    \* the shell whose Stop sends on a halt channel made once
    old,
    \* one MultiChoice or Checklist call
    sel

shellVars == <<active, haltChan, closedChans, interruptCount, eof, interrupt, generic>>
readerVars == <<mutex, reading, readingMulti, scannerClosed>>
loopVars ==
    <<loopPc, runs, line, err, lineIds, hkind, hargs, hcount, hpc, cerr, printed, streak>>
hostVars == <<hostPc, waitChan>>
runVars == <<shellVars, readerVars, rl, sr, loopVars, hostVars, crashed, nReq, nReads>>
moreVars == <<fan, rd, old, sel>>
callVars == <<disp, comp, life, moreVars>>
vars == <<runVars, asm, tree, callVars>>

\* The callers of Shell.readLine: the statement goroutine of run k, the
\* handler the loop is executing, and the host.
Stmt(k) == <<"stmt", k>>
Handler == <<"handler", 0>>
Host == <<"host", 0>>
NoOne == <<"none", 0>>
Runs == 1..MaxRuns
Callers == {Stmt(k) : k \in Runs} \cup {Handler, Host}

Opener == <<"a", "<", "<", "E">>

\* What the line source returns from one Readline call: the text typed and
\* nil, the text typed so far and readline.ErrInterrupt, or no text and
\* io.EOF or another error.
Texts ==
    { <<>>, <<"a">>, <<"E">>, <<"a", " ", "\\">>, <<"'">>, Opener }
SourceResults ==
    [text : Texts, err : {"nil"}] \cup [text : {<<>>, Opener}, err : {"interrupt"}]
        \cup [text : {<<>>}, err : {"eof", "other"}]

IdleReader == [pc |-> "idle", id |-> 0, joined |-> 0]
NoStmt ==
    [pc |-> "none", lines |-> <<>>, cur |-> 0, heredoc |-> FALSE, tok |-> <<>>,
     ids |-> {}, args |-> <<>>, err |-> "nil", orphan |-> FALSE]

\* The physical reads that are outstanding: calls of scanner.Readline that
\* have not returned.
Outstanding == {c \in Callers : rl[c].pc = "reading"}
InFlight == IF Outstanding = {} THEN 0 ELSE rl[CHOOSE c \in Outstanding : TRUE].id

\* Shell.read before its first line: the locals of read and of
\* readMultiLinesFunc, the reader's prompt mode, and as history the results
\* read (in) and the prompt mode of each read (modes).
AsmStart ==
    [pc |-> "read", lines |-> <<>>, cur |-> 0, heredoc |-> FALSE, tok |-> <<>>,
     multi |-> FALSE, in |-> <<>>, modes |-> <<>>, args |-> <<>>, err |-> "nil"]

\* A Cmd with no Func and no subcommands.
NewCmd(name) == [Name |-> name, Func |-> "nil", children |-> NoChildren]

\* The root command of a new shell, with no operation made on its tree yet:
\* root is the tree, last the latest AddCmd or DeleteCmd (the node it was
\* called on, as the path of names from the root, its argument, and whether
\* the node had a child of that name when it was called).
NoOp == [op |-> "none", path |-> <<>>, name |-> <<>>, cmd |-> NewCmd(<<>>), had |-> FALSE]
TreeStart == [root |-> NewCmd(<<>>), last |-> NoOp]

\* A shell after New for Process: the settings NewWithConfig makes (no
\* NotFound handler, case-sensitive, autoHelp) and no call of Process yet.
\* out is the outcome of the latest call: the slice it was given (line), the
\* decision of handleInput (h), the handlers called in order with their
\* Args (called), what was printed and the error returned.
NoOut ==
    [op |-> "none", line |-> <<>>, h |-> handleInput(NewCmd(<<>>), FALSE, TRUE, FALSE, <<>>),
     called |-> <<>>, printed |-> <<>>, err |-> "nil"]
DispStart == [ignoreCase |-> FALSE, autoHelp |-> autoHelp, generic |-> FALSE, out |-> NoOut]

\* The completer before a call.
CompStart ==
    [pc |-> "idle", line |-> <<>>, pos |-> 0, disabled |-> FALSE,
     suggestions |-> <<>>, length |-> 0]

\* The goroutines of the host that call Start, Run and Stop.
LifeHosts == {1, 2}

\* A new shell: not active, no halt channel made yet, no run loop (bg counts
\* the loops that Start launched as goroutines), every host goroutine
\* outside the shell's methods.
LifeStart ==
    [active |-> FALSE, halt |-> "nil", bg |-> 0, pc |-> [g \in LifeHosts |-> "idle"],
     panic |-> FALSE]

\* The Shell.readLine calls made on the fan-out reader, each with a consumer
\* channel of its own.
FanCalls == 1..MaxCalls
NoCall == [pc |-> "none", reg |-> 0, got |-> 0]

\* The fan-out reader of a new shell: no consumer, no read, and as history
\* the number of physical reads started, the sends that the reader's
\* goroutines have still to make, and a panic of the process.
FanStart ==
    [consumers |-> <<>>, reading |-> FALSE, nRead |-> 0,
     call |-> [c \in FanCalls |-> NoCall], sends |-> {}, panic |-> FALSE]
\* The Shell.readLine calls and the ReadPassword calls made on the reader.
RdCalls == 1..MaxCalls
PwCalls == {1, 2}

\* The reader of a new shell: mutex free (0), not reading, no call made.
\* late records that the call was made while another call was reading.
RdStart ==
    [mutex |-> 0, reading |-> FALSE,
     call |-> [c \in RdCalls |-> [pc |-> "none", late |-> FALSE]],
     pw |-> [p \in PwCalls |-> "none"]]
\* The shell of the earlier revision after New: haltChan is made once, and
\* signals holds the goroutines of Stop that have still to send on it, each
\* named by the run whose Stop started it.  run counts the Start calls,
\* reads the statements read in the run, and orphans is the history of the
\* runs that gave up a read for a signal of an earlier run.
OldStart ==
    [active |-> FALSE, pc |-> "idle", run |-> 0, reads |-> 0, signals |-> {},
     orphans |-> {}]
\* No MultiChoice or Checklist call: multi is multiResults, n the number of
\* options, init the initial selection; selected, cur, offset, maxRows and
\* lastKey are the locals of multiChoice and result is what the call
\* returned.
SelStart ==
    [pc |-> "idle", multi |-> FALSE, n |-> 1, init |-> <<>>, selected |-> <<>>, cur |-> 0,
     offset |-> 0, maxRows |-> 0, lastKey |-> 0, result |-> <<>>]

\* The shell after New and the host's registrations, which are made before
\* the shell starts: either no EOF, Interrupt and NotFound handler, or all
\* three.
InitShell ==
    /\ active = FALSE /\ haltChan = 0 /\ closedChans = {} /\ interruptCount = 0
    /\ \E registered \in BOOLEAN :
          eof = registered /\ interrupt = registered /\ generic = registered
    /\ mutex = NoOne /\ reading = FALSE /\ readingMulti = FALSE /\ scannerClosed = FALSE
    /\ rl = [c \in Callers |-> IdleReader]
    /\ sr = [k \in Runs |-> NoStmt]
    /\ loopPc = "idle" /\ runs = 0 /\ line = <<>> /\ err = "nil" /\ lineIds = {}
    /\ hkind = "none" /\ hargs = <<>> /\ hcount = 0 /\ hpc = "none" /\ cerr = "nil"
    /\ hostPc = "idle" /\ waitChan = 0
    /\ printed = "none" /\ crashed = "none"
    /\ nReq = 0 /\ nReads = 0 /\ streak = 0
    /\ disp = DispStart
    /\ life = LifeStart
    /\ fan = FanStart /\ rd = RdStart /\ old = OldStart

Init ==
    InitShell /\ asm = AsmStart /\ tree = TreeStart /\ comp = CompStart /\ sel = SelStart

(***************************************************************************)
(* The reader (reader.go).                                                 *)
(***************************************************************************)
\* Shell.readLine up to its receive: make the consumer channel and start
\* the goroutine s.reader.readLine(consumer).
IssueReadLine(c) ==
    /\ nReq < MaxReads
    /\ rl[c].pc = "idle"
    /\ nReq' = nReq + 1
    /\ rl' = [rl EXCEPT ![c] = [IdleReader EXCEPT !.pc = "lock", !.joined = InFlight]]

\* A reader without its mutex and its reading flag.
ReaderLockUnserialized(c) ==
    /\ crashed = "none"
    /\ UNCHANGED <<asm, tree, callVars>>
    /\ rl[c].pc = "lock"
    /\ mutex' = c
    /\ reading' = TRUE
    /\ nReads' = nReads + 1
    /\ rl' = [rl EXCEPT ![c].pc = "reading", ![c].id = nReads + 1]
    /\ UNCHANGED <<shellVars, readingMulti, scannerClosed, sr, loopVars, hostVars,
                   crashed, nReq>>

\* shellReader.readLine from s.Lock() to the call of scanner.Readline: the
\* goroutine holds the mutex while the line source blocks.
ReaderLock(c) ==
    /\ crashed = "none"
    /\ UNCHANGED <<asm, tree, callVars>>
    /\ rl[c].pc = "lock"
    /\ mutex = NoOne
    /\ IF reading
       THEN /\ rl' = [rl EXCEPT ![c].pc = "returned"]
            /\ UNCHANGED <<mutex, reading, nReads>>
       ELSE /\ mutex' = c
            /\ reading' = TRUE
            /\ nReads' = nReads + 1
            /\ rl' = [rl EXCEPT ![c].pc = "reading", ![c].id = nReads + 1]
    /\ UNCHANGED <<shellVars, readingMulti, scannerClosed, sr, loopVars, hostVars,
                   crashed, nReq>>

\* A reader that leaves its reading flag set.
DeliverKeepsFlag(c) ==
    /\ rl[c].pc = "reading"
    /\ mutex' = NoOne
    /\ reading' = reading
    /\ rl' = [rl EXCEPT ![c] = IdleReader]

\* scanner.Readline returns and shellReader.readLine runs to its deferred
\* Unlock: the result is sent on consumer, where Shell.readLine receives it.
Deliver(c) ==
    /\ rl[c].pc = "reading"
    /\ mutex' = NoOne
    /\ reading' = FALSE
    /\ rl' = [rl EXCEPT ![c] = IdleReader]

(***************************************************************************)
(* The statement goroutine: go func() { line, err = s.read(); read <- .. } *)
(***************************************************************************)
\* One turn of the loop of readMultiLinesFunc up to the receive inside
\* Shell.readLine: from the second line on the reader is in multi-line mode.
StmtCall(k) ==
    /\ crashed = "none"
    /\ UNCHANGED <<asm, tree, callVars>>
    /\ sr[k].pc = "call"
    /\ IssueReadLine(Stmt(k))
    /\ readingMulti' = IF sr[k].cur = 1 THEN TRUE ELSE readingMulti
    /\ sr' = [sr EXCEPT ![k].pc = "wait"]
    /\ UNCHANGED <<shellVars, mutex, reading, scannerClosed, loopVars, hostVars,
                   crashed, nReads>>

\* The rest of the turn: the line is appended and passed to f; the loop goes
\* on, or ends and Shell.read tokenizes what was read.
StmtRecv(k) ==
    /\ crashed = "none"
    /\ UNCHANGED <<asm, tree, callVars>>
    /\ sr[k].pc = "wait"
    /\ Deliver(Stmt(k))
    /\ \E res \in SourceResults :
       LET st == sr[k]
           ids == st.ids \cup {rl[Stmt(k)].id}
           lines == st.lines \o res.text
           f == HeredocF(st.heredoc, st.tok, res.text)
       IN IF f.cont /\ res.err = "nil"
          THEN /\ sr' = [sr EXCEPT ![k] = [st EXCEPT !.pc = "call",
                                                     !.lines = lines \o Newline,
                                                     !.cur = st.cur + 1,
                                                     !.heredoc = f.heredoc,
                                                     !.tok = f.tok,
                                                     !.ids = ids]]
               /\ UNCHANGED <<readingMulti, crashed>>
          ELSE LET t == ReadTail(lines, f.heredoc, f.tok, res.err)
               IN /\ readingMulti' = IF st.cur > 0 THEN FALSE ELSE readingMulti
                  /\ crashed' = IF t.panic THEN "index" ELSE "none"
                  /\ sr' = [sr EXCEPT ![k] = [NoStmt EXCEPT !.pc = "done",
                                                        !.ids = ids,
                                                        !.args = IF st.orphan THEN <<>>
                                                                 ELSE t.args,
                                                        !.err = t.err,
                                                        !.orphan = st.orphan]]
    /\ UNCHANGED <<shellVars, scannerClosed, loopVars, hostVars, nReq, nReads>>

(***************************************************************************)
(* The run loop (Shell.run) and the handlers it calls.                     *)
(***************************************************************************)
ResetLocals ==
    /\ line' = <<>> /\ err' = "nil" /\ lineIds' = {}
    /\ hkind' = "none" /\ hargs' = <<>> /\ hcount' = 0 /\ hpc' = "none" /\ cerr' = "nil"

\* The end of an iteration: continue, or the end of the loop body.
EndIter(pr) == loopPc' = "check" /\ printed' = pr /\ ResetLocals /\ UNCHANGED runs

\* continue in the place of break.
BreakContinues == EndIter("EOF")

\* break out of the loop.
Break == loopPc' = "done" /\ printed' = "EOF" /\ ResetLocals /\ UNCHANGED runs

\* The call of a handler with a new Context.
Invoke(h, args, n) ==
    /\ loopPc' = "handler" /\ hkind' = h /\ hargs' = args /\ hcount' = n
    /\ hpc' = "body" /\ cerr' = "nil"
    /\ UNCHANGED <<runs, line, err, lineIds, printed>>

\* for s.Active(): start the statement goroutine of the iteration, or leave.
LoopCheck ==
    /\ crashed = "none"
    /\ UNCHANGED <<asm, tree, callVars>>
    /\ loopPc = "check"
    /\ IF active
       THEN /\ loopPc' = "select"
            /\ printed' = "none"
            /\ sr' = [sr EXCEPT ![runs] = [NoStmt EXCEPT !.pc = "call"]]
       ELSE /\ loopPc' = "done"
            /\ UNCHANGED <<printed, sr>>
    /\ UNCHANGED <<streak, shellVars, readerVars, rl, runs, line, err, lineIds, hkind, hargs,
                   hcount, hpc, cerr, hostVars, crashed, nReq, nReads>>

\* One channel read shared by all iterations and runs.
DeliveringShared == {k \in Runs : sr[k].pc = "done"}

\* The statement goroutines whose send on the channel read the select of
\* this iteration can receive: read is made anew in every iteration.
Delivering == {k \in Runs : k = runs /\ sr[k].pc = "done" /\ ~sr[k].orphan}

\* select, case <-read.
SelectRead ==
    /\ crashed = "none"
    /\ UNCHANGED <<asm, tree, callVars>>
    /\ loopPc = "select"
    /\ \E k \in Delivering :
          /\ line' = sr[k].args
          /\ err' = sr[k].err
          /\ lineIds' = sr[k].ids
          /\ sr' = [sr EXCEPT ![k] = NoStmt]
    /\ loopPc' = "classify"
    /\ UNCHANGED <<streak, shellVars, readerVars, rl, runs, hkind, hargs, hcount, hpc, cerr,
                   printed, hostVars, crashed, nReq, nReads>>

\* select, case <-s.haltChan: continue shell.  The statement goroutine of
\* the iteration is left behind: it blocks in its send on read for ever, and
\* the line it holds can be reached by nobody.
SelectHalt ==
    /\ crashed = "none"
    /\ UNCHANGED <<asm, tree, callVars>>
    /\ loopPc = "select"
    /\ haltChan \in closedChans
    /\ loopPc' = "check"
    /\ sr' = [sr EXCEPT ![runs].orphan = TRUE, ![runs].args = <<>>]
    /\ UNCHANGED <<streak, shellVars, readerVars, rl, runs, line, err, lineIds, hkind, hargs,
                   hcount, hpc, cerr, printed, hostVars, crashed, nReq, nReads>>

\* A count that goes up by two.
NextInterruptCountSkips == interruptCount + 2

\* handleInterrupt: s.interruptCount++.
NextInterruptCount == interruptCount + 1

\* The normal flow without the skip of an empty statement.
NormalFlowDispatchesEmpty ==
    /\ interruptCount' = 0
    /\ LET d == HandleInput(line, generic)
       IN CASE d.to = "help"      -> EndIter("help")
            [] d.to = "nohandler" -> EndIter("nohandler")
            [] d.to = "cmd"       -> Invoke("cmd", d.args, 0)
            [] d.to = "generic"   -> Invoke("generic", line, 0)

\* Lines 173-187 of Shell.run: the normal flow.
NormalFlow ==
    /\ interruptCount' = 0
    /\ IF Len(line) = 0
       THEN EndIter(printed)
       ELSE LET d == HandleInput(line, generic)
            IN CASE d.to = "help"      -> EndIter("help")
                 [] d.to = "nohandler" -> EndIter("nohandler")
                 [] d.to = "cmd"       -> Invoke("cmd", d.args, 0)
                 [] d.to = "generic"   -> Invoke("generic", line, 0)

\* Lines 156-187 of Shell.run up to the call of a handler.
Classify ==
    /\ crashed = "none"
    /\ UNCHANGED <<asm, tree, callVars>>
    /\ loopPc = "classify"
    /\ streak' = CASE err = "nil" -> 0
                  [] err = "interrupt" /\ streak >= 0 -> streak + 1
                  [] OTHER -> -1
    /\ IF err = "eof"
       THEN /\ IF ~eof THEN Break ELSE Invoke("eof", <<>>, 0)
            /\ UNCHANGED interruptCount
       ELSE IF err \notin {"nil", "interrupt"}
       THEN EndIter(err) /\ UNCHANGED interruptCount
       ELSE IF err = "interrupt"
       THEN IF ~interrupt
            THEN EndIter("nointerrupt") /\ UNCHANGED interruptCount
            ELSE /\ interruptCount' = NextInterruptCount
                 /\ Invoke("interrupt", line, NextInterruptCount)
       ELSE NormalFlow
    /\ UNCHANGED <<active, haltChan, closedChans, eof, interrupt, generic, readerVars,
                   rl, sr, hostVars, crashed, nReq, nReads>>

\* A handler returns.  After the EOF handler the loop goes on to line 170
\* with err still io.EOF; after the others it prints c.err, if set.
HandlerReturn ==
    /\ crashed = "none"
    /\ UNCHANGED <<asm, tree, callVars>>
    /\ loopPc = "handler"
    /\ hpc = "body"
    /\ IF hkind = "eof"
       THEN IF cerr # "nil"
            THEN EndIter(cerr) /\ UNCHANGED interruptCount
            ELSE NormalFlow
       ELSE EndIter(IF cerr # "nil" THEN cerr ELSE printed) /\ UNCHANGED interruptCount
    /\ UNCHANGED <<streak, active, haltChan, closedChans, eof, interrupt, generic, readerVars,
                   rl, sr, hostVars, crashed, nReq, nReads>>

\* The handler calls c.Err(err).
HandlerErr ==
    /\ crashed = "none"
    /\ UNCHANGED <<asm, tree, callVars>>
    /\ loopPc = "handler" /\ hpc = "body" /\ cerr = "nil"
    /\ cerr' = "user"
    /\ UNCHANGED <<streak, shellVars, readerVars, rl, sr, loopPc, runs, line, err, lineIds,
                   hkind, hargs, hcount, hpc, printed, hostVars, crashed, nReq, nReads>>

\* close(s.haltChan): closing a closed channel panics.
CloseHalt ==
    IF haltChan \in closedChans
    THEN crashed' = "close" /\ UNCHANGED closedChans
    ELSE closedChans' = closedChans \cup {haltChan} /\ UNCHANGED crashed

\* The handler calls c.Stop(): Shell.stop, line 108.
HandlerStop ==
    /\ crashed = "none"
    /\ UNCHANGED <<asm, tree, callVars>>
    /\ loopPc = "handler" /\ hpc = "body"
    /\ active
    /\ hpc' = "set"
    /\ UNCHANGED <<streak, shellVars, readerVars, rl, sr, loopPc, runs, line, err, lineIds,
                   hkind, hargs, hcount, cerr, printed, hostVars, crashed, nReq, nReads>>

\* Shell.stop, lines 111-113.
HandlerSet ==
    /\ crashed = "none"
    /\ UNCHANGED <<asm, tree, callVars>>
    /\ loopPc = "handler" /\ hpc = "set"
    /\ active' = FALSE
    /\ hpc' = "close"
    /\ UNCHANGED <<streak, haltChan, closedChans, interruptCount, eof, interrupt, generic,
                   readerVars, rl, sr, loopPc, runs, line, err, lineIds, hkind, hargs,
                   hcount, cerr, printed, hostVars, crashed, nReq, nReads>>

\* Shell.stop, line 114.
HandlerClose ==
    /\ crashed = "none"
    /\ UNCHANGED <<asm, tree, callVars>>
    /\ loopPc = "handler" /\ hpc = "close"
    /\ CloseHalt
    /\ hpc' = "body"
    /\ UNCHANGED <<streak, active, haltChan, interruptCount, eof, interrupt, generic,
                   readerVars, rl, sr, loopPc, runs, line, err, lineIds, hkind, hargs,
                   hcount, cerr, printed, hostVars, nReq, nReads>>

\* The handler calls c.ReadLine().
HandlerReadLine ==
    /\ crashed = "none"
    /\ UNCHANGED <<asm, tree, callVars>>
    /\ loopPc = "handler" /\ hpc = "body"
    /\ IssueReadLine(Handler)
    /\ hpc' = "readline"
    /\ UNCHANGED <<streak, shellVars, readerVars, sr, loopPc, runs, line, err, lineIds,
                   hkind, hargs, hcount, cerr, printed, hostVars, crashed, nReads>>

\* c.ReadLine() returns the line.
HandlerRecv ==
    /\ crashed = "none"
    /\ UNCHANGED <<asm, tree, callVars>>
    /\ loopPc = "handler" /\ hpc = "readline"
    /\ Deliver(Handler)
    /\ hpc' = "body"
    /\ UNCHANGED <<streak, shellVars, readingMulti, scannerClosed, sr, loopPc, runs, line, err,
                   lineIds, hkind, hargs, hcount, cerr, printed, hostVars, crashed,
                   nReq, nReads>>

(***************************************************************************)
(* The host: one goroutine that calls Start, Stop, Close, Wait and         *)
(* ReadLine one after the other, and starts the shell again only after the *)
(* run loop has returned.                                                  *)
(***************************************************************************)
HostIdle == hostPc = "idle" /\ rl[Host].pc = "idle"

\* Shell.Start: prepareRun, then go s.run().
HostStart ==
    /\ crashed = "none"
    /\ UNCHANGED <<asm, tree, callVars>>
    /\ HostIdle
    /\ loopPc \in {"idle", "done"}
    /\ ~scannerClosed
    /\ runs < MaxRuns
    /\ runs' = runs + 1
    /\ loopPc' = "check"
    /\ IF active
       THEN UNCHANGED <<active, haltChan>>
       ELSE active' = TRUE /\ haltChan' = runs + 1
    /\ UNCHANGED <<streak, closedChans, interruptCount, eof, interrupt, generic, readerVars,
                   rl, sr, line, err, lineIds, hkind, hargs, hcount, hpc, cerr, printed,
                   hostVars, crashed, nReq, nReads>>

\* Shell.stop, line 108, called by Stop ("set") or by Close ("setC").
HostStop ==
    /\ crashed = "none"
    /\ UNCHANGED <<asm, tree, callVars>>
    /\ HostIdle
    /\ active
    /\ hostPc' \in {"set", "setC"}
    /\ UNCHANGED <<shellVars, readerVars, rl, sr, loopVars, waitChan, crashed,
                   nReq, nReads>>

\* Shell.stop, lines 111-113.
HostSet ==
    /\ crashed = "none"
    /\ UNCHANGED <<asm, tree, callVars>>
    /\ hostPc \in {"set", "setC"}
    /\ active' = FALSE
    /\ hostPc' = IF hostPc = "set" THEN "close" ELSE "closeC"
    /\ UNCHANGED <<haltChan, closedChans, interruptCount, eof, interrupt, generic,
                   readerVars, rl, sr, loopVars, waitChan, crashed, nReq, nReads>>

\* Shell.stop, line 114.
HostCloseHalt ==
    /\ crashed = "none"
    /\ UNCHANGED <<asm, tree, callVars>>
    /\ hostPc \in {"close", "closeC"}
    /\ CloseHalt
    /\ hostPc' = IF hostPc = "close" THEN "idle" ELSE "scan"
    /\ UNCHANGED <<active, haltChan, interruptCount, eof, interrupt, generic,
                   readerVars, rl, sr, loopVars, waitChan, nReq, nReads>>

\* Shell.Close on a shell that is not active: stop returns at once.
HostCloseInactive ==
    /\ crashed = "none"
    /\ UNCHANGED <<asm, tree, callVars>>
    /\ HostIdle
    /\ ~active
    /\ ~scannerClosed
    /\ hostPc' = "scan"
    /\ UNCHANGED <<shellVars, readerVars, rl, sr, loopVars, waitChan, crashed,
                   nReq, nReads>>

\* Shell.Close, line 122: s.reader.scanner.Close().
HostScannerClose ==
    /\ crashed = "none"
    /\ UNCHANGED <<asm, tree, callVars>>
    /\ hostPc = "scan"
    /\ scannerClosed' = TRUE
    /\ hostPc' = "idle"
    /\ UNCHANGED <<shellVars, mutex, reading, readingMulti, rl, sr, loopVars,
                   waitChan, crashed, nReq, nReads>>

\* Shell.Wait: <-s.haltChan, up to the receive.
WaitCall ==
    /\ crashed = "none"
    /\ UNCHANGED <<asm, tree, callVars>>
    /\ HostIdle
    /\ hostPc' = "wait"
    /\ waitChan' = haltChan
    /\ UNCHANGED <<shellVars, readerVars, rl, sr, loopVars, crashed, nReq, nReads>>

\* Shell.Wait returns: the channel it reads is closed.
WaitReturn ==
    /\ crashed = "none"
    /\ UNCHANGED <<asm, tree, callVars>>
    /\ hostPc = "wait"
    /\ waitChan \in closedChans
    /\ hostPc' = "idle"
    /\ waitChan' = 0
    /\ UNCHANGED <<shellVars, readerVars, rl, sr, loopVars, crashed, nReq, nReads>>

\* The host calls ReadLine.
HostReadLine ==
    /\ crashed = "none"
    /\ UNCHANGED <<asm, tree, callVars>>
    /\ HostIdle
    /\ IssueReadLine(Host)
    /\ UNCHANGED <<shellVars, readerVars, sr, loopVars, hostVars, crashed, nReads>>

\* The host's ReadLine returns.
HostRecv ==
    /\ crashed = "none"
    /\ UNCHANGED <<asm, tree, callVars>>
    /\ Deliver(Host)
    /\ UNCHANGED <<shellVars, readingMulti, scannerClosed, sr, loopVars, hostVars,
                   crashed, nReq, nReads>>

Next ==
    \/ \E c \in Callers : ReaderLock(c)
    \/ \E k \in Runs : StmtCall(k)
    \/ \E k \in Runs : StmtRecv(k)
    \/ LoopCheck
    \/ SelectRead
    \/ SelectHalt
    \/ Classify
    \/ HandlerReturn
    \/ HandlerErr
    \/ HandlerStop
    \/ HandlerSet
    \/ HandlerClose
    \/ HandlerReadLine
    \/ HandlerRecv
    \/ HostStart
    \/ HostStop
    \/ HostSet
    \/ HostCloseHalt
    \/ HostCloseInactive
    \/ HostScannerClose
    \/ WaitCall
    \/ WaitReturn
    \/ HostReadLine
    \/ HostRecv

Spec == Init /\ [][Next]_vars

(***************************************************************************)
(* Shell.read on its own: one statement assembled from the results of      *)
(* successive reads, with no other goroutine at the reader.                *)
(***************************************************************************)
\* The lines typed: a word, two words, the heredoc token bare and padded, a
\* heredoc opener, continuations, and an open quote.
AsmTexts ==
    { <<>>, <<"a">>, <<"b", " ", "c">>, <<"E">>, <<" ", "E">>, Opener,
      <<"a", " ", "\\">>, <<"a", " ", "\\", " ">>, <<"'", "\\">> }
AsmResults == [text : AsmTexts, err : {"nil", "interrupt", "eof"}]

\* One turn of the loop of readMultiLinesFunc, and after its last turn the
\* rest of Shell.read.
ReadStatement ==
    /\ asm.pc = "read"
    /\ Len(asm.in) < MaxLines
    /\ \E res \in AsmResults :
       LET multi == IF asm.cur = 1 THEN TRUE ELSE asm.multi
           lines == asm.lines \o res.text
           f == HeredocF(asm.heredoc, asm.tok, res.text)
           in == Append(asm.in, res)
           modes == Append(asm.modes, multi)
       IN IF f.cont /\ res.err = "nil"
          THEN asm' = [asm EXCEPT !.lines = lines \o Newline, !.cur = asm.cur + 1,
                                  !.heredoc = f.heredoc, !.tok = f.tok,
                                  !.multi = multi, !.in = in, !.modes = modes]
          ELSE LET t == ReadTail(lines, f.heredoc, f.tok, res.err)
               IN asm' = [asm EXCEPT !.pc = IF t.panic THEN "panic" ELSE "done",
                                     !.lines = lines,
                                     !.heredoc = f.heredoc, !.tok = f.tok,
                                     !.multi = IF asm.cur > 0 THEN FALSE ELSE multi,
                                     !.in = in, !.modes = modes,
                                     !.args = t.args, !.err = t.err]
    /\ UNCHANGED <<runVars, tree, callVars>>

\* The caller goes on to its next statement.
NextStatement ==
    /\ asm.pc = "done"
    /\ asm' = [AsmStart EXCEPT !.multi = asm.multi]
    /\ UNCHANGED <<runVars, tree, callVars>>

AsmNext == ReadStatement \/ NextStatement

AsmSpec == Init /\ [][AsmNext]_vars

(***************************************************************************)
(* The command tree under AddCmd and DeleteCmd (command.go).               *)
(***************************************************************************)
TreeNames == {<<"a">>, <<"b">>}
Funcs == {"nil", "fn"}
\* The commands a host registers: a name and a handler or none.
NewCmds == {[NewCmd(n) EXCEPT !.Func = f] : n \in TreeNames, f \in Funcs}
\* Argument vectors: registered names and a word that names no command.
Words == TreeNames \cup {<<"x">>}
RECURSIVE SeqsUpTo(_, _)
SeqsUpTo(S, n) ==
    IF n = 0 THEN {<<>>}
    ELSE LET T == SeqsUpTo(S, n - 1)
         IN T \cup {Append(t, w) : t \in {u \in T : Len(u) = n - 1}, w \in S}
ArgVectors == SeqsUpTo(Words, MaxArgs)

\* The node reached from c by the names of path, each a child of the one
\* before; HasPath tells whether there is one.
RECURSIVE HasPath(_, _)
HasPath(c, path) ==
    IF path = <<>> THEN TRUE
    ELSE /\ Head(path) \in DOMAIN c.children
         /\ HasPath(c.children[Head(path)], Tail(path))
RECURSIVE NodeAt(_, _)
NodeAt(c, path) ==
    IF path = <<>> THEN c ELSE NodeAt(c.children[Head(path)], Tail(path))
\* The tree with the node at path replaced: the node is held by pointer, so
\* a change of it is seen from the root.
RECURSIVE SetAt(_, _, _)
SetAt(c, path, new) ==
    IF path = <<>> THEN new
    ELSE [c EXCEPT !.children[Head(path)] = SetAt(c.children[Head(path)], Tail(path), new)]
Paths(c) == {path \in SeqsUpTo(TreeNames, MaxDepth) : HasPath(c, path)}

\* A node that keeps the child it has under the name of cmd.
AddedKeepsFirst(c, cmd) ==
    IF cmd.Name \in DOMAIN c.children THEN c
    ELSE [c EXCEPT !.children = (cmd.Name :> cmd) @@ c.children]

\* Cmd.AddCmd: node c after c.AddCmd(cmd).
Added(c, cmd) == [c EXCEPT !.children = (cmd.Name :> cmd) @@ c.children]

\* A delete that spares a child that has subcommands of its own.
DeletedLeafOnly(c, name) ==
    LET keep == {n \in DOMAIN c.children :
                    n # name \/ DOMAIN c.children[n].children # {}}
    IN [c EXCEPT !.children = IF keep = {} THEN NoChildren
                              ELSE [n \in keep |-> c.children[n]]]

\* Cmd.DeleteCmd: node c after c.DeleteCmd(name).
Deleted(c, name) ==
    LET keep == DOMAIN c.children \ {name}
    IN [c EXCEPT !.children = IF keep = {} THEN NoChildren
                              ELSE [n \in keep |-> c.children[n]]]

\* The orders in which a range over the map with keys S can run.
Orders(S) ==
    {o \in [1..Cardinality(S) -> S] : \A i, j \in 1..Cardinality(S) : o[i] = o[j] => i = j}

\* The order of Go's strings: byte by byte, a proper prefix first; upper
\* case letters come before lower case ones.
Rank(ch) ==
    LET abc == UpperLetters \o LowerLetters
    IN IF \E i \in 1..Len(abc) : abc[i] = ch
       THEN CHOOSE i \in 1..Len(abc) : abc[i] = ch
       ELSE 0
StrLess(x, y) ==
    \E i \in 1..(Len(y)) :
        /\ \A j \in 1..(i - 1) : j <= Len(x) /\ x[j] = y[j]
        /\ i > Len(x) \/ Rank(x[i]) < Rank(y[i])

\* An order that looks at the first byte only.
cmdLessFirstByte(x, y) == StrLess(SubStr(x.Name, 1, 1), SubStr(y.Name, 1, 1))

\* cmdSorter.Less.
cmdLess(x, y) == StrLess(x.Name, y.Name)

\* sort.Sort(cmdSorter(cmds)): cmds in the order of cmdLess.
RECURSIVE InsertCmd(_, _)
InsertCmd(sorted, x) ==
    IF sorted = <<>> THEN <<x>>
    ELSE IF cmdLess(x, Head(sorted)) THEN <<x>> \o sorted
         ELSE <<Head(sorted)>> \o InsertCmd(Tail(sorted), x)
RECURSIVE SortCmds(_)
SortCmds(cmds) ==
    IF cmds = <<>> THEN <<>>
    ELSE InsertCmd(SortCmds(SubStr(cmds, 1, Len(cmds) - 1)), cmds[Len(cmds)])

\* Cmd.Children: the subcommands of c, collected by a range over the map
\* that runs in the order given, then sorted by name.
ChildrenIn(c, order) == SortCmds([i \in 1..Len(order) |-> c.children[order[i]]])
Children(c) == ChildrenIn(c, CHOOSE order \in Orders(DOMAIN c.children) : TRUE)

\* The host calls AddCmd(cmd) on the node at path.
AddCmd(path, cmd) ==
    /\ HasPath(tree.root, path)
    /\ Len(path) < MaxDepth
    /\ tree' = [root |-> SetAt(tree.root, path, Added(NodeAt(tree.root, path), cmd)),
                last |-> [op |-> "AddCmd", path |-> path, name |-> cmd.Name, cmd |-> cmd,
                          had |-> cmd.Name \in DOMAIN NodeAt(tree.root, path).children]]
    /\ UNCHANGED <<runVars, asm, callVars>>

\* The host calls DeleteCmd(name) on the node at path.
DeleteCmd(path, name) ==
    /\ HasPath(tree.root, path)
    /\ tree' = [root |-> SetAt(tree.root, path, Deleted(NodeAt(tree.root, path), name)),
                last |-> [op |-> "DeleteCmd", path |-> path, name |-> name,
                          cmd |-> NewCmd(<<>>),
                          had |-> name \in DOMAIN NodeAt(tree.root, path).children]]
    /\ UNCHANGED <<runVars, asm, callVars>>

AddCmdStep == \E path \in SeqsUpTo(TreeNames, MaxDepth), cmd \in NewCmds : AddCmd(path, cmd)
DeleteCmdStep == \E path \in SeqsUpTo(TreeNames, MaxDepth), name \in Words : DeleteCmd(path, name)

TreeNext == AddCmdStep \/ DeleteCmdStep

TreeSpec == Init /\ [][TreeNext]_vars

(***************************************************************************)
(* Command aliases.  Cmd in command.go has no Aliases field and FindCmd no *)
(* alias lookup, though command_test.go and example/main.go set Aliases:   *)
(* the field, the registration that keeps names and aliases unique within  *)
(* a node, and the lookup by name first and then by alias follow the       *)
(* specification's data model and resolve().                               *)
(***************************************************************************)
AliasWords == {<<"x">>}
\* The aliases of a command: none for a Cmd made without the field.
AliasesOf(cmd) == IF "Aliases" \in DOMAIN cmd THEN cmd.Aliases ELSE {}
AliasedCmds ==
    {[Name |-> n, Func |-> "fn", children |-> NoChildren, Aliases |-> {w}] :
        n \in TreeNames, w \in AliasWords}

\* A lookup that knows names only.
findChildByName(c, name) ==
    IF name \in DOMAIN c.children
    THEN [found |-> TRUE, cmd |-> c.children[name]]
    ELSE [found |-> FALSE, cmd |-> c]

\* findChild(name): the child of c with that name or, when there is none,
\* the child that has it as an alias.
findChild(c, name) ==
    IF name \in DOMAIN c.children
    THEN [found |-> TRUE, cmd |-> c.children[name]]
    ELSE IF \E n \in DOMAIN c.children : name \in AliasesOf(c.children[n])
         THEN [found |-> TRUE,
               cmd |-> c.children[CHOOSE n \in DOMAIN c.children :
                                      name \in AliasesOf(c.children[n])]]
         ELSE [found |-> FALSE, cmd |-> c]

\* resolve(args): the walk of FindCmd with findChild as its lookup.
RECURSIVE resolveWalk(_, _, _, _, _)
resolveWalk(c, found, cmd, args, i) ==
    IF i > Len(args)
    THEN [found |-> found, cmd |-> cmd, args |-> <<>>]
    ELSE LET ch == findChild(c, args[i])
         IN IF ch.found
            THEN resolveWalk(ch.cmd, TRUE, ch.cmd, args, i + 1)
            ELSE [found |-> found, cmd |-> cmd, args |-> SubStr(args, i, Len(args))]
resolve(c, args) == resolveWalk(c, FALSE, c, args, 1)

\* Within one node the names and the aliases of the children are mutually
\* unique.
UniqueWords(c) ==
    /\ \A n, m \in DOMAIN c.children :
          n # m => AliasesOf(c.children[n]) \cap AliasesOf(c.children[m]) = {}
    /\ \A n, m \in DOMAIN c.children : m \notin AliasesOf(c.children[n])

\* The host registers a command that has aliases at the node at path; the
\* registration keeps the words of the node unique.
AddAliasedCmd(path, cmd) ==
    /\ HasPath(tree.root, path)
    /\ Len(path) < MaxDepth
    /\ UniqueWords(Added(NodeAt(tree.root, path), cmd))
    /\ tree' = [root |-> SetAt(tree.root, path, Added(NodeAt(tree.root, path), cmd)),
                last |-> [op |-> "AddAliasedCmd", path |-> path, name |-> cmd.Name,
                          cmd |-> cmd,
                          had |-> cmd.Name \in DOMAIN NodeAt(tree.root, path).children]]
    /\ UNCHANGED <<runVars, asm, callVars>>

AddAliasedCmdStep ==
    \E path \in SeqsUpTo(TreeNames, MaxDepth), cmd \in AliasedCmds : AddAliasedCmd(path, cmd)

AliasNext == AddCmdStep \/ DeleteCmdStep \/ AddAliasedCmdStep

AliasSpec == Init /\ [][AliasNext]_vars

(***************************************************************************)
(* Non-interactive dispatch: Shell.Process on a shell whose settings the   *)
(* host changes with IgnoreCase, AutoHelp and NotFound.                    *)
(***************************************************************************)
\* The commands of the shell: "a" has a handler and a subcommand "b" that
\* has one, "n" has no handler.
dispRoot ==
    [Name |-> <<>>, Func |-> "nil",
     children |->
        (<<"a">> :> [Name |-> <<"a">>, Func |-> "fn",
                     children |-> (<<"b">> :> [Name |-> <<"b">>, Func |-> "fn",
                                               children |-> NoChildren])])
        @@ (<<"n">> :> [Name |-> <<"n">>, Func |-> "nil", children |-> NoChildren])]
\* The words of a statement: command names in lower and upper case and
\* "help"; "b", "B" and "help" name no top-level command.
DispWords == {<<"a">>, <<"b">>, <<"n">>, <<"A">>, <<"B">>, HelpWord}
DispLines == SeqsUpTo(DispWords, MaxArgs)

\* Shell.IgnoreCase, Shell.AutoHelp and Shell.NotFound (with a handler or nil).
IgnoreCase(ignore) ==
    /\ disp' = [disp EXCEPT !.ignoreCase = ignore, !.out = NoOut]
    /\ UNCHANGED <<runVars, asm, tree, comp, life, moreVars>>
AutoHelp(enable) ==
    /\ disp' = [disp EXCEPT !.autoHelp = enable, !.out = NoOut]
    /\ UNCHANGED <<runVars, asm, tree, comp, life, moreVars>>
NotFound(f) ==
    /\ disp' = [disp EXCEPT !.generic = f, !.out = NoOut]
    /\ UNCHANGED <<runVars, asm, tree, comp, life, moreVars>>

\* Shell.Process(args...): handleInput and the handler it calls; cerr0 is
\* the error the handler leaves in its context.
Process(args, cerr0) ==
    LET h == handleInput(dispRoot, disp.ignoreCase, disp.autoHelp, disp.generic, args)
    IN /\ disp' = [disp EXCEPT !.out =
                     [op |-> "Process", line |-> args, h |-> h,
                      called |-> CASE h.to = "cmd" -> <<[h |-> "cmd", cmd |-> h.cmd, Args |-> h.args]>>
                                   [] h.to = "generic" -> <<[h |-> "generic", cmd |-> NewCmd(<<>>), Args |-> h.str]>>
                                   [] OTHER -> <<>>,
                      printed |-> IF h.to = "help" THEN <<[help |-> h.cmd]>> ELSE <<>>,
                      err |-> CASE h.to \in {"cmd", "generic"} -> cerr0
                                [] h.to = "nohandler" -> "errNoHandler"
                                [] OTHER -> "nil"]]
       /\ UNCHANGED <<runVars, asm, tree, comp, life, moreVars>>

IgnoreCaseStep == \E ignore \in BOOLEAN : IgnoreCase(ignore)
AutoHelpStep == \E enable \in BOOLEAN : AutoHelp(enable)
NotFoundStep == \E f \in BOOLEAN : NotFound(f)
ProcessStep == \E args \in DispLines, cerr0 \in {"nil", "handler"} : Process(args, cerr0)

DispNext == IgnoreCaseStep \/ AutoHelpStep \/ NotFoundStep \/ ProcessStep

DispSpec == Init /\ [][DispNext]_vars

(***************************************************************************)
(* Completion (completer.go): iCompleter.Do on the root command of a       *)
(* shell, called by the line editor with the line buffer and the cursor    *)
(* position.                                                               *)
(***************************************************************************)
\* strings.Fields: the words of s between runs of white space.
RECURSIVE FieldsFrom(_, _, _, _)
FieldsFrom(s, i, cur, toks) ==
    IF i > Len(s) THEN (IF cur = <<>> THEN toks ELSE Append(toks, cur))
    ELSE IF IsSpace(s[i])
         THEN FieldsFrom(s, i + 1, <<>>, IF cur = <<>> THEN toks ELSE Append(toks, cur))
         ELSE FieldsFrom(s, i + 1, Append(cur, s[i]), toks)
Fields(s) == FieldsFrom(s, 1, <<>>, <<>>)

\* The commands of the shell: add (with subcommands a, ad and da), clear,
\* words.
Leaf(name) == [Name |-> name, Func |-> "fn", children |-> NoChildren]
compRoot ==
    [Name |-> <<>>, Func |-> "nil",
     children |->
        (<<"a", "d", "d">> :>
            [Name |-> <<"a", "d", "d">>, Func |-> "fn",
             children |-> (<<"a">> :> Leaf(<<"a">>)) @@ (<<"a", "d">> :> Leaf(<<"a", "d">>))
                            @@ (<<"d", "a">> :> Leaf(<<"d", "a">>))])
        @@ (<<"c", "l", "e", "a", "r">> :> Leaf(<<"c", "l", "e", "a", "r">>))
        @@ (<<"w", "o", "r", "d", "s">> :> Leaf(<<"w", "o", "r", "d", "s">>))]

\* The line buffers: letters, blanks and a quote.
CompChars == {"a", "d", " ", "'"}
CompLines == SeqsUpTo(CompChars, MaxLine)

\* Lines 18-24 of Do: the words of the line, by shlex or, when it fails, by
\* strings.Fields.
DoWords(l) == IF Split(l).err = "nil" THEN Split(l).args ELSE Fields(l)

\* Line 28 of Do reads line[pos-1] when there are words: out of range when
\* pos is 0.
DoPanics(l, pos) == Len(DoWords(l)) > 0 /\ pos = 0

\* A completer that takes the last word as the prefix whatever is in front
\* of the cursor.
DoPrefixLastWord(l, pos) ==
    LET words == DoWords(l)
    IN IF Len(words) > 0
       THEN [prefix |-> words[Len(words)], walk |-> SubStr(words, 1, Len(words) - 1)]
       ELSE [prefix |-> <<>>, walk |-> words]

\* Lines 26-33 of Do: the prefix and the words getWords is called with.
DoPrefix(l, pos) ==
    LET words == DoWords(l)
    IN IF Len(words) > 0 /\ l[pos] # " "
       THEN [prefix |-> words[Len(words)], walk |-> SubStr(words, 1, Len(words) - 1)]
       ELSE [prefix |-> <<>>, walk |-> words]

\* iCompleter.getWords without a custom Completer: the node whose child
\* names it returns, in the order of a range over the children map.
getWords(root, w) == IF FindCmd(root, w).found THEN FindCmd(root, w).cmd ELSE root

\* Lines 35-40 of Do: the suggestions for the words cWords.
RECURSIVE Suggest(_, _, _)
Suggest(cWords, prefix, i) ==
    IF i > Len(cWords) THEN <<>>
    ELSE (IF HasPrefix(cWords[i], prefix)
          THEN <<SubStr(cWords[i], Len(prefix) + 1, Len(cWords[i]))>>
          ELSE <<>>) \o Suggest(cWords, prefix, i + 1)

\* A completer that turns every empty suggestion into a blank.
BlankEvery(suggestions, prefix) ==
    [i \in 1..Len(suggestions) |->
        IF suggestions[i] = <<>> /\ prefix # <<>> THEN <<" ">> ELSE suggestions[i]]

\* Lines 41-43 of Do: a single empty suggestion becomes a blank.
Blank(suggestions, prefix) ==
    IF Len(suggestions) = 1 /\ prefix # <<>> /\ suggestions[1] = <<>>
    THEN << <<" ">> >>
    ELSE suggestions

\* iCompleter.Do(line, pos) on the root command, where disabled is what
\* ic.disabled() returns: the results it can give, one for every order in
\* which the children map is ranged over, or the panic of line 28.
DoOutcomes(l, pos, disabled) ==
    IF disabled
    THEN {[pc |-> "done", suggestions |-> <<>>, length |-> Len(l)]}
    ELSE IF DoPanics(l, pos)
    THEN {[pc |-> "panic", suggestions |-> <<>>, length |-> 0]}
    ELSE LET p == DoPrefix(l, pos)
             node == getWords(compRoot, p.walk)
         IN {[pc |-> "done",
              suggestions |-> Blank(Suggest(cWords, p.prefix, 1), p.prefix),
              length |-> Len(p.prefix)] : cWords \in Orders(DOMAIN node.children)}

\* The line editor's call of Do returns or panics.
Do ==
    /\ comp.pc = "call"
    /\ \E o \in DoOutcomes(comp.line, comp.pos, comp.disabled) :
          comp' = [comp EXCEPT !.pc = o.pc, !.suggestions = o.suggestions,
                               !.length = o.length]
    /\ UNCHANGED <<runVars, asm, tree, disp, life, moreVars>>

\* The line editor calls the completer of a new shell with a line buffer
\* and a cursor position within it.
DoInit ==
    /\ InitShell /\ asm = AsmStart /\ tree = TreeStart /\ sel = SelStart
    /\ \E l \in CompLines, pos \in 0..MaxLine, disabled \in BOOLEAN :
          /\ pos <= Len(l)
          /\ comp = [CompStart EXCEPT !.pc = "call", !.line = l, !.pos = pos,
                                      !.disabled = disabled]

DoSpec == DoInit /\ [][Do]_vars

(***************************************************************************)
(* Help texts (command.go): Children and HelpText of a command whose       *)
(* subcommands the host adds and deletes.                                  *)
(***************************************************************************)
\* Cmd.Help and Cmd.LongHelp: empty in a Cmd made without them.
HelpOf(c) == IF "Help" \in DOMAIN c THEN c.Help ELSE <<>>
LongHelpOf(c) == IF "LongHelp" \in DOMAIN c THEN c.LongHelp ELSE <<>>

\* A command that counts a help subcommand like any other.
hasSubcommandAny(c) == Cardinality(DOMAIN c.children) > 0

\* Cmd.hasSubcommand.
hasSubcommand(c) ==
    IF Cardinality(DOMAIN c.children) > 1 THEN TRUE
    ELSE IF HelpWord \notin DOMAIN c.children
         THEN Cardinality(DOMAIN c.children) > 0
         ELSE FALSE

\* What HelpText writes: p() writes an empty line, p(s) an empty line and
\* the line s, the tabwriter one row per child with its name and its Help.
EmptyLine == [k |-> "empty", a |-> <<>>, b |-> <<>>]
TextLine(t) == [k |-> "line", a |-> t, b |-> <<>>]
Row(child) == [k |-> "row", a |-> child.Name, b |-> HelpOf(child)]
CommandsTitle == <<"Commands:">>
HasNoHelp(name) == name \o <<" ", "has no help">>

\* Cmd.HelpText.
HelpText(c) ==
    (IF LongHelpOf(c) # <<>> THEN <<EmptyLine, TextLine(LongHelpOf(c))>>
     ELSE IF HelpOf(c) # <<>> THEN <<EmptyLine, TextLine(HelpOf(c))>>
     ELSE IF c.Name # <<>> THEN <<EmptyLine, TextLine(HasNoHelp(c.Name))>>
     ELSE <<>>)
    \o (IF hasSubcommand(c)
        THEN <<EmptyLine, TextLine(CommandsTitle)>>
             \o [i \in 1..Len(Children(c)) |-> Row(Children(c)[i])]
             \o <<EmptyLine>>
        ELSE <<>>)

\* The commands of the host: a root with or without a name, a Help and a
\* LongHelp, and subcommands with or without a Help, one of them "help".
HelpNames == {<<"a">>, <<"a", "b">>, <<"B">>, HelpWord}
HelpRoots ==
    {[Name |-> n, Func |-> "nil", children |-> NoChildren, Help |-> h, LongHelp |-> l] :
        n \in {<<>>, <<"r">>}, h \in {<<>>, <<"h">>}, l \in {<<>>, <<"L">>}}
HelpCmds ==
    {[Name |-> n, Func |-> "fn", children |-> NoChildren, Help |-> h, LongHelp |-> <<>>] :
        n \in HelpNames, h \in {<<>>, <<"h">>}}

\* The host calls Children() on the root: the range over the map runs in
\* some order.
ChildrenCall ==
    /\ \E order \in Orders(DOMAIN tree.root.children) :
          tree' = [tree EXCEPT !.last =
                     [op |-> "Children", path |-> <<>>, name |-> <<>>, cmd |-> NewCmd(<<>>),
                      had |-> FALSE, out |-> ChildrenIn(tree.root, order)]]
    /\ UNCHANGED <<runVars, asm, callVars>>

\* The host calls HelpText() on the root.
HelpTextCall ==
    /\ tree' = [tree EXCEPT !.last =
                  [op |-> "HelpText", path |-> <<>>, name |-> <<>>, cmd |-> NewCmd(<<>>),
                   had |-> FALSE, out |-> HelpText(tree.root)]]
    /\ UNCHANGED <<runVars, asm, callVars>>

HelpAddStep == \E cmd \in HelpCmds : AddCmd(<<>>, cmd)
HelpDeleteStep == \E name \in HelpNames : DeleteCmd(<<>>, name)

HelpInit ==
    /\ InitShell /\ asm = AsmStart /\ comp = CompStart /\ sel = SelStart
    /\ \E r \in HelpRoots : tree = [root |-> r, last |-> NoOp]

HelpNext == HelpAddStep \/ HelpDeleteStep \/ ChildrenCall \/ HelpTextCall

HelpSpec == HelpInit /\ [][HelpNext]_vars

(***************************************************************************)
(* Start, Run and Stop called by several goroutines (ishell.go 90-137),    *)
(* with the run loops they start.                                          *)
(***************************************************************************)
\* The run loops that are executing: those launched by Start and those that
\* a caller of Run is in.
Loops == life.bg + Cardinality({g \in LifeHosts : life.pc[g] = "run"})

\* Shell.Start and Shell.Run, up to the test of prepareRun: on an active
\* shell prepareRun returns at once.
ShellStart ==
    /\ \E g \in LifeHosts :
          /\ ~life.panic /\ life.pc[g] = "idle"
          /\ life' = [life EXCEPT !.pc[g] = IF life.active THEN "goStart" ELSE "prepStart"]
    /\ UNCHANGED <<runVars, asm, tree, disp, comp, moreVars>>

ShellRun ==
    /\ \E g \in LifeHosts :
          /\ ~life.panic /\ life.pc[g] = "idle"
          /\ life' = [life EXCEPT !.pc[g] = IF life.active THEN "goRun" ELSE "prepRun"]
    /\ UNCHANGED <<runVars, asm, tree, disp, comp, moreVars>>

\* prepareRun, lines 132-134: s.active = true under the mutex.
prepareRunActive ==
    /\ \E g \in LifeHosts :
          /\ ~life.panic /\ life.pc[g] \in {"prepStart", "prepRun"}
          /\ life' = [life EXCEPT !.active = TRUE,
                                  !.pc[g] = IF life.pc[g] = "prepStart" THEN "haltStart" ELSE "haltRun"]
    /\ UNCHANGED <<runVars, asm, tree, disp, comp, moreVars>>

\* prepareRun, line 136: s.haltChan = make(chan struct{}).
prepareRunHalt ==
    /\ \E g \in LifeHosts :
          /\ ~life.panic /\ life.pc[g] \in {"haltStart", "haltRun"}
          /\ life' = [life EXCEPT !.halt = "open",
                                  !.pc[g] = IF life.pc[g] = "haltStart" THEN "goStart" ELSE "goRun"]
    /\ UNCHANGED <<runVars, asm, tree, disp, comp, moreVars>>

\* Shell.Start, line 93: go s.run().
StartGo ==
    /\ \E g \in LifeHosts :
          /\ ~life.panic /\ life.pc[g] = "goStart"
          /\ life.bg < MaxLoops
          /\ life' = [life EXCEPT !.bg = life.bg + 1, !.pc[g] = "idle"]
    /\ UNCHANGED <<runVars, asm, tree, disp, comp, moreVars>>

\* Shell.Run, line 99: s.run() in the caller's goroutine.
RunEnter ==
    /\ \E g \in LifeHosts :
          /\ ~life.panic /\ life.pc[g] = "goRun"
          /\ life' = [life EXCEPT !.pc[g] = "run"]
    /\ UNCHANGED <<runVars, asm, tree, disp, comp, moreVars>>

\* Shell.run returns: its loop test finds the shell not active, or it reads
\* end of input with no EOF handler set and breaks (lines 141, 155-158).
runReturns(why) == why = "inactive" => ~life.active

LoopReturn ==
    /\ ~life.panic /\ life.bg > 0
    /\ \E why \in {"inactive", "eof"} : runReturns(why)
    /\ life' = [life EXCEPT !.bg = life.bg - 1]
    /\ UNCHANGED <<runVars, asm, tree, disp, comp, moreVars>>

RunReturn ==
    /\ \E g \in LifeHosts :
          /\ ~life.panic /\ life.pc[g] = "run"
          /\ \E why \in {"inactive", "eof"} : runReturns(why)
          /\ life' = [life EXCEPT !.pc[g] = "idle"]
    /\ UNCHANGED <<runVars, asm, tree, disp, comp, moreVars>>

\* Shell.stop, line 108: the test of Active().
ShellStop ==
    /\ \E g \in LifeHosts :
          /\ ~life.panic /\ life.pc[g] = "idle"
          /\ life' = [life EXCEPT !.pc[g] = IF life.active THEN "set" ELSE "idle"]
    /\ UNCHANGED <<runVars, asm, tree, disp, comp, moreVars>>

\* Shell.stop, lines 111-113.
stopActive ==
    /\ \E g \in LifeHosts :
          /\ ~life.panic /\ life.pc[g] = "set"
          /\ life' = [life EXCEPT !.active = FALSE, !.pc[g] = "close"]
    /\ UNCHANGED <<runVars, asm, tree, disp, comp, moreVars>>

\* Shell.stop, line 114: close(s.haltChan) panics on a nil or closed channel.
stopHalt ==
    /\ \E g \in LifeHosts :
          /\ ~life.panic /\ life.pc[g] = "close"
          /\ life' = [life EXCEPT !.halt = IF life.halt = "open" THEN "closed" ELSE life.halt,
                                  !.panic = life.halt # "open",
                                  !.pc[g] = "idle"]
    /\ UNCHANGED <<runVars, asm, tree, disp, comp, moreVars>>


LifeNext ==
    \/ ShellStart
    \/ ShellRun
    \/ prepareRunActive
    \/ prepareRunHalt
    \/ StartGo
    \/ RunEnter
    \/ LoopReturn
    \/ RunReturn
    \/ ShellStop
    \/ stopActive
    \/ stopHalt

LifeSpec == Init /\ [][LifeNext]_vars

(***************************************************************************)
(* The reader that fans the result of one physical read out to the         *)
(* consumers registered with it (shellReader.readLine with s.consumers).   *)
(***************************************************************************)
fanOthers == <<runVars, asm, tree, disp, comp, life, rd, old, sel>>

\* Shell.readLine: consumer := make(chan lineString), go
\* s.reader.readLine(consumer); the caller then waits in <-consumer.
FanReadLine ==
    /\ ~fan.panic
    /\ \E c \in FanCalls :
          /\ fan.call[c].pc = "none"
          /\ \A d \in FanCalls : d < c => fan.call[d].pc # "none"
          /\ fan' = [fan EXCEPT !.call[c].pc = "go"]
    /\ UNCHANGED fanOthers

\* shellReader.readLine under the mutex: the consumer is appended, and a
\* physical read is started unless one is in progress.  reg is the read the
\* consumer is registered for.
FanRegister ==
    /\ ~fan.panic
    /\ \E c \in FanCalls :
          /\ fan.call[c].pc = "go"
          /\ fan' = [fan EXCEPT
                       !.consumers = Append(fan.consumers, c),
                       !.reading = TRUE,
                       !.nRead = IF fan.reading THEN fan.nRead ELSE fan.nRead + 1,
                       !.call[c] = [pc |-> "wait",
                                    reg |-> IF fan.reading THEN fan.nRead ELSE fan.nRead + 1,
                                    got |-> 0]]
    /\ UNCHANGED fanOthers

\* The reading goroutine after Readline has returned, under the mutex: one
\* goroutine per element of s.consumers to send it the result, then
\* s.reading = false.  s.consumers is left as it is.
FanBroadcast ==
    /\ ~fan.panic
    /\ fan.reading
    /\ fan' = [fan EXCEPT
                 !.sends = fan.sends \cup
                             {<<fan.consumers[i], fan.nRead>> : i \in 1..Len(fan.consumers)},
                 !.reading = FALSE]
    /\ UNCHANGED fanOthers

\* c <- ls in a sending goroutine: the caller waiting in <-consumer takes
\* the result, returns and closes its channel (defer close(consumer)); a
\* send on a channel that its caller has closed panics.
FanSend ==
    /\ ~fan.panic
    /\ \E m \in fan.sends :
          IF fan.call[m[1]].pc = "wait"
          THEN fan' = [fan EXCEPT !.sends = fan.sends \ {m},
                                  !.call[m[1]].pc = "done",
                                  !.call[m[1]].got = m[2]]
          ELSE fan' = [fan EXCEPT !.sends = fan.sends \ {m}, !.panic = TRUE]
    /\ UNCHANGED fanOthers

FanNext == FanReadLine \/ FanRegister \/ FanBroadcast \/ FanSend

FanSpec == Init /\ [][FanNext]_vars

(***************************************************************************)
(* The reader under Shell.readLine and ReadPassword calls made by several  *)
(* goroutines (reader.go 42-88, ishell.go 254-260).                        *)
(***************************************************************************)
rdOthers == <<runVars, asm, tree, disp, comp, life, fan, old, sel>>

\* The physical reads that have not returned: Readline and ReadPassword
\* calls on the scanner.
RdOutstanding ==
    Cardinality({c \in RdCalls : rd.call[c].pc = "reading"})
        + Cardinality({p \in PwCalls : rd.pw[p] = "reading"})

\* Shell.readLine: consumer := make(chan lineString), go
\* s.reader.readLine(consumer); the caller then waits in <-consumer.
RdReadLine ==
    /\ \E c \in RdCalls :
          /\ rd.call[c].pc = "none"
          /\ \A d \in RdCalls : d < c => rd.call[d].pc # "none"
          /\ rd' = [rd EXCEPT !.call[c] =
                       [pc |-> "go",
                        late |-> \E d \in RdCalls : rd.call[d].pc = "reading"]]
    /\ UNCHANGED rdOthers

\* A reader that does not wait for the mutex.
RdMayLockAlways(c) == TRUE

\* s.Lock() returns when no goroutine holds the mutex.
RdMayLock(c) == rd.mutex = 0

\* shellReader.readLine, lines 57-82: with the mutex, return if a read is in
\* progress (the consumer is then never sent to), else s.reading = true and
\* scanner.Readline().
RdLockOf(c) ==
    /\ rd.call[c].pc = "go"
    /\ RdMayLock(c)
    /\ IF rd.reading
       THEN rd' = [rd EXCEPT !.call[c].pc = "returned"]
       ELSE rd' = [rd EXCEPT !.mutex = c, !.reading = TRUE, !.call[c].pc = "reading"]
    /\ UNCHANGED rdOthers

RdLock == \E c \in RdCalls : RdLockOf(c)

\* Lines 82-88: Readline returns, the caller waiting in <-consumer takes the
\* result, s.reading = false, and the deferred Unlock.
RdDeliver ==
    /\ \E c \in RdCalls :
          /\ rd.call[c].pc = "reading"
          /\ rd' = [rd EXCEPT !.mutex = IF rd.mutex = c THEN 0 ELSE rd.mutex,
                              !.reading = FALSE, !.call[c].pc = "done"]
    /\ UNCHANGED rdOthers

\* shellReader.readPassword: s.scanner.ReadPassword(prompt), with no lock.
RdPassword ==
    /\ \E p \in PwCalls :
          /\ rd.pw[p] = "none"
          /\ \A q \in PwCalls : q < p => rd.pw[q] # "none"
          /\ rd' = [rd EXCEPT !.pw[p] = "reading"]
    /\ UNCHANGED rdOthers

\* ReadPassword returns.
RdPasswordReturn ==
    /\ \E p \in PwCalls :
          /\ rd.pw[p] = "reading"
          /\ rd' = [rd EXCEPT !.pw[p] = "done"]
    /\ UNCHANGED rdOthers

RdNext == RdReadLine \/ RdLock \/ RdDeliver \/ RdPassword \/ RdPasswordReturn

RdSpec == Init /\ [][RdNext]_vars

\* Every physical read returns, and a goroutine waiting for the mutex gets
\* it (sync.Mutex hands the lock to a waiter that has waited long).
RdLive ==
    /\ RdSpec
    /\ WF_vars(RdDeliver) /\ WF_vars(RdPasswordReturn)
    /\ \A c \in RdCalls : SF_vars(RdLockOf(c))

(***************************************************************************)
(* The earlier revision of the shell, whose Stop sends on a halt channel   *)
(* made once in New (Shell.start and Shell.Stop).                          *)
(***************************************************************************)
oldOthers == <<runVars, asm, tree, disp, comp, life, fan, rd, sel>>

\* Shell.Start on a shell with no loop running: start() returns at once if
\* the shell is active, else sets active and enters the loop.
OldStartCall ==
    /\ old.pc \in {"idle", "done"}
    /\ old.run < MaxRuns
    /\ IF old.active
       THEN old' = [old EXCEPT !.run = old.run + 1, !.pc = "done"]
       ELSE old' = [old EXCEPT !.active = TRUE, !.run = old.run + 1, !.reads = 0,
                               !.pc = "check"]
    /\ UNCHANGED oldOthers

\* for s.Active(): the statement goroutine of the iteration is started, or
\* the loop ends.
OldCheck ==
    /\ old.pc = "check"
    /\ old.active => old.reads < MaxReads
    /\ old' = IF old.active
              THEN [old EXCEPT !.pc = "select", !.reads = old.reads + 1]
              ELSE [old EXCEPT !.pc = "done"]
    /\ UNCHANGED oldOthers

\* select, case <-read: the statement is an end-of-stream (break), an empty
\* line (continue), or a line whose handler is called.
OldSelectRead ==
    /\ old.pc = "select"
    /\ \E res \in {"eof", "empty", "line"} :
          old' = [old EXCEPT !.pc = CASE res = "eof" -> "done"
                                      [] res = "empty" -> "check"
                                      [] res = "line" -> "handler"]
    /\ UNCHANGED oldOthers

\* select, case <-s.haltChan: one of the waiting senders is received from,
\* and the loop continues, leaving the read of the iteration behind.
OldSelectHalt ==
    /\ old.pc = "select"
    /\ \E q \in old.signals :
          old' = [old EXCEPT !.signals = old.signals \ {q},
                             !.pc = "check",
                             !.orphans = IF q < old.run THEN old.orphans \cup {old.run}
                                         ELSE old.orphans]
    /\ UNCHANGED oldOthers

\* The handler returns to the loop.
OldHandlerReturn ==
    /\ old.pc = "handler"
    /\ old' = [old EXCEPT !.pc = "check"]
    /\ UNCHANGED oldOthers

\* Shell.Stop, from a handler or from another goroutine, on an active shell:
\* active = false, and a goroutine is started to send on haltChan.
OldStop ==
    /\ old.pc \in {"check", "select", "handler"}
    /\ old.active
    /\ old' = [old EXCEPT !.active = FALSE, !.signals = old.signals \cup {old.run}]
    /\ UNCHANGED oldOthers

OldNext ==
    \/ OldStartCall
    \/ OldCheck
    \/ OldSelectRead
    \/ OldSelectHalt
    \/ OldHandlerReturn
    \/ OldStop

OldSpec == Init /\ [][OldNext]_vars

(***************************************************************************)
(* ReadMultiLinesFunc and ReadMultiLines called by the host or a handler   *)
(* (actions.go 68-80, Shell.readMultiLinesFunc).                           *)
(***************************************************************************)
\* A loop that goes on after a failed read.
readMultiLinesStopsOnFalse(cont, e) == ~cont

\* readMultiLinesFunc, line 317: `if !f(line) || err != nil { break }`.
readMultiLinesStops(cont, e) == ~cont \/ e # "nil"

\* The closure of ReadMultiLines(terminator) returns false on this line.
Terminated(text, terminator) == HasSuffix(TrimSpace(text), terminator)

\* One turn of the loop of readMultiLinesFunc on the read result res, with
\* cont what f returns for the line: the new locals, the reader's prompt
\* mode, and as history the results read with what f said (in) and the
\* prompt mode of each read (modes).
readMultiLinesTurn(res, cont, end) ==
    LET multi == IF asm.cur = 1 THEN TRUE ELSE asm.multi
        lines == asm.lines \o res.text
        in == Append(asm.in, [text |-> res.text, err |-> res.err, cont |-> cont])
        modes == Append(asm.modes, multi)
    IN IF readMultiLinesStops(cont, res.err)
       THEN [asm EXCEPT !.pc = end, !.lines = lines,
                        !.multi = IF asm.cur > 0 THEN FALSE ELSE multi,
                        !.in = in, !.modes = modes]
       ELSE [asm EXCEPT !.lines = lines \o Newline, !.cur = asm.cur + 1,
                        !.multi = multi, !.in = in, !.modes = modes]

\* ReadMultiLinesFunc(f), one line: f is any function of the host.
ReadMultiLinesFunc ==
    /\ asm.pc = "func"
    /\ Len(asm.in) < MaxLines
    /\ \E res \in AsmResults, cont \in BOOLEAN :
          asm' = readMultiLinesTurn(res, cont, "doneFunc")
    /\ UNCHANGED <<runVars, tree, callVars>>

\* ReadMultiLines(terminator), one line; asm.tok is the terminator.
ReadMultiLines ==
    /\ asm.pc = "lines"
    /\ Len(asm.in) < MaxLines
    /\ \E res \in AsmResults :
          asm' = readMultiLinesTurn(res, ~Terminated(res.text, asm.tok), "doneLines")
    /\ UNCHANGED <<runVars, tree, callVars>>

\* The call: ReadMultiLinesFunc, or ReadMultiLines with a terminator.
MultiTerminators == {<<"E">>, <<"\\">>, <<>>}
MultiInit ==
    /\ InitShell /\ tree = TreeStart /\ comp = CompStart /\ sel = SelStart
    /\ \/ asm = [AsmStart EXCEPT !.pc = "func"]
       \/ \E t \in MultiTerminators : asm = [AsmStart EXCEPT !.pc = "lines", !.tok = t]

MultiNext == ReadMultiLinesFunc \/ ReadMultiLines

MultiSpec == MultiInit /\ [][MultiNext]_vars

(***************************************************************************)
(* MultiChoice and Checklist (actions.go 290-296, Shell.multiChoice).      *)
(***************************************************************************)
selOthers == <<runVars, asm, tree, disp, comp, life, fan, rd, old>>

\* initSelected with the negative indices dropped as well.
initSelectedInRange(init, max) ==
    {init[i] : i \in {j \in 1..Len(init) : init[j] >= 0 /\ init[j] < max}}

\* initSelected(init, max): the keys of selectedMap; the slice returned holds
\* them in the order of a range over the map.
initSelected(init, max) == {init[i] : i \in {j \in 1..Len(init) : init[j] < max}}

\* toggle(selected, cur).
toggle(selected, cur) ==
    IF \E i \in 1..Len(selected) : selected[i] = cur
    THEN LET i == CHOOSE j \in 1..Len(selected) :
                     selected[j] = cur /\ \A k \in 1..(j - 1) : selected[k] # cur
         IN SubStr(selected, 1, i - 1) \o SubStr(selected, i + 1, Len(selected))
    ELSE Append(selected, cur)

\* int(os.Stdout.Fd()).
fd == 1

\* The filtered keys: Ctrl-P (up), Ctrl-N (down) and space.
KeyUp == -1
KeyDown == -2
KeySpace == -3
CtrlC == 3

\* multiChoice up to s.ReadLine(): selected and cur from init, then the size
\* of the terminal; when readline.GetSize fails multiChoice returns nil, and
\* MultiChoice panics in choice[0].
SelBegin ==
    /\ sel.pc = "call"
    /\ \E selected \in (IF sel.multi THEN Orders(initSelected(sel.init, sel.n)) ELSE {<<>>}),
          sizeErr \in BOOLEAN, rows \in {2, 4} :
          IF sizeErr
          THEN sel' = [sel EXCEPT !.pc = IF sel.multi THEN "done" ELSE "panic",
                                  !.selected = selected,
                                  !.cur = IF Len(selected) > 0 THEN selected[Len(selected)]
                                          ELSE 0]
          ELSE sel' = [sel EXCEPT !.pc = "keys", !.selected = selected,
                                  !.cur = IF Len(selected) > 0 THEN selected[Len(selected)]
                                          ELSE 0,
                                  !.offset = fd, !.maxRows = rows]
    /\ UNCHANGED selOthers

\* The listener on one key press of up, down or space.
SelKey ==
    /\ sel.pc = "keys"
    /\ \E key \in {KeyUp, KeyDown, KeySpace} :
          sel' = CASE key = KeyDown ->
                        LET cur == sel.cur + 1
                            offset == IF cur >= sel.maxRows + sel.offset - 1
                                      THEN sel.offset + 1 ELSE sel.offset
                        IN IF cur >= sel.n
                           THEN [sel EXCEPT !.lastKey = key, !.cur = 0, !.offset = fd]
                           ELSE [sel EXCEPT !.lastKey = key, !.cur = cur, !.offset = offset]
                 [] key = KeyUp ->
                        LET cur == sel.cur - 1
                            offset == IF cur < sel.offset THEN sel.offset - 1 ELSE sel.offset
                        IN IF cur < 0
                           THEN [sel EXCEPT !.lastKey = key, !.cur = sel.n - 1,
                                            !.offset = IF sel.n > sel.maxRows - 1
                                                       THEN sel.n - sel.maxRows + 1 ELSE fd]
                           ELSE [sel EXCEPT !.lastKey = key, !.cur = cur, !.offset = offset]
                 [] key = KeySpace ->
                        [sel EXCEPT !.lastKey = key,
                                    !.selected = IF sel.multi THEN toggle(sel.selected, sel.cur)
                                                 ELSE sel.selected]
    /\ UNCHANGED selOthers

\* The user ends the line with Enter (key 13) or with Ctrl-C: s.ReadLine()
\* returns, and multiChoice returns [-1], the selection, or the current
\* option; MultiChoice returns the first element.
SelReturn ==
    /\ sel.pc = "keys"
    /\ \E key \in {13, CtrlC} :
          sel' = [sel EXCEPT !.pc = "done", !.lastKey = key,
                             !.result = IF key = CtrlC THEN <<-1>>
                                        ELSE IF sel.multi THEN sel.selected
                                        ELSE <<sel.cur>>]
    /\ UNCHANGED selOthers

\* The call: MultiChoice on one to MaxOptions options, or Checklist with an
\* initial selection of up to two indices, in or out of range.
InitIndices == {-2, 0, 1, MaxOptions}
SelInit ==
    /\ InitShell /\ asm = AsmStart /\ tree = TreeStart /\ comp = CompStart
    /\ \E n \in 1..MaxOptions, multi \in BOOLEAN, init \in SeqsUpTo(InitIndices, 2) :
          /\ ~multi => init = <<>>
          /\ sel = [SelStart EXCEPT !.pc = "call", !.multi = multi, !.n = n, !.init = init]

SelNext == SelBegin \/ SelKey \/ SelReturn

SelSpec == SelInit /\ [][SelNext]_vars

(***************************************************************************)
(* Properties.                                                             *)
(***************************************************************************)
\* C1: in every reachable state at most one call of the line source's
\* Readline is outstanding.
C1_OneReadOutstanding == Cardinality(Outstanding) <= 1

\* A read is outstanding while another request waits for the reader.
C1_Witness ==
    \E c, d \in Callers : c # d /\ rl[c].pc = "reading" /\ rl[d].pc = "lock"

\* C2: a request for a line issued while a physical read is outstanding
\* starts no physical read of its own: it is served by the read in flight,
\* so that one physical read answers both callers with the same line and
\* error.
C2_SecondRequestJoins == \A c \in Callers : rl[c].pc = "reading" => rl[c].joined = 0

\* The physical reads made by the statement goroutines a halt left behind.
OrphanIds == UNION {sr[k].ids : k \in {j \in Runs : sr[j].orphan}}

\* C3: when the shell is stopped while the loop waits for a statement, the
\* loop leaves its select by the halt channel with the line source still
\* blocked and ends at its next check; what the loop takes from its select is
\* the statement of the goroutine of its current iteration only, so the
\* result of a read left behind reaches no handler.
C3_StopAbandonsRead ==
    /\ [](haltChan \in closedChans => ~active)
    /\ [](lineIds \cap OrphanIds = {})
    /\ [][(loopPc = "select" /\ loopPc' = "classify")
             => (~sr[runs].orphan /\ lineIds' = sr[runs].ids /\ line' = sr[runs].args)]_vars
    /\ [][(loopPc = "select" /\ loopPc' = "check")
             => (haltChan \in closedChans /\ sr'[runs].orphan
                 /\ UNCHANGED <<line, lineIds, hkind, hpc, rl>>)]_vars

\* The loop has ended after a stop and the read of its last statement is
\* still outstanding; a later run is dispatching a statement of its own.
C3_Witness ==
    \E k \in Runs :
        /\ k < runs
        /\ sr[k].orphan
        /\ rl[Stmt(k)].pc = "reading"
        /\ loopPc = "handler"

\* C4: once a handler has stopped the shell, with no physical read pending,
\* the loop invokes no further handler, and at its next check it ends
\* without starting a read.
C4_NoHandlerAfterStop ==
    /\ [][(loopPc = "handler" /\ ~active /\ haltChan \in closedChans /\ Outstanding = {})
             => (loopPc' = "handler" => hkind' = hkind)]_vars
    /\ [][(loopPc = "check" /\ ~active) => loopPc' \in {"check", "done"}]_vars

\* C5: no failure of a statement ends the run loop: the loop ends only on
\* end-of-stream with no EOF handler or after Stop or Close, and no read of a
\* statement brings the process down.
C5_LoopEndsOnlyOnEofOrStop ==
    /\ [](crashed # "index")
    /\ [][(loopPc # "done" /\ loopPc' = "done")
             => (~active \/ (err = "eof" /\ ~eof))]_vars

\* C6: on an end-of-stream result the loop invokes the EOF handler, once,
\* and goes on to its next check; with no EOF handler it ends, and an ended
\* loop starts no further read.
C6_EofHandledOrLoopEnds ==
    /\ [][(loopPc = "classify" /\ loopPc' # "classify" /\ err = "eof")
             => IF eof
                THEN loopPc' = "handler" /\ hkind' = "eof" /\ UNCHANGED <<sr, rl>>
                ELSE loopPc' = "done" /\ UNCHANGED <<sr, rl>>]_vars
    /\ [][(hkind # "eof" /\ hkind' = "eof") => (loopPc = "classify" /\ err = "eof")]_vars
    /\ [][(hkind = "eof" /\ hkind' # "eof") => loopPc' \in {"check", "handler"}]_vars
    /\ [][loopPc = "done" => (loopPc' = "done" \/ runs' = runs + 1)]_vars
    /\ [](loopPc = "done" => (sr[runs].pc = "none" \/ sr[runs].orphan))

\* With no EOF handler, end-of-stream has ended the loop.
C6_Witness == loopPc = "done" /\ printed = "EOF" /\ ~eof /\ nReads >= 2

\* C7: the interrupt handler is called with the number of interrupts read
\* in a row since the shell started or since the last line read without an
\* error: 1, 2, ... k, and 1 again after a normal statement.
C7_InterruptCounts ==
    (loopPc = "handler" /\ hkind = "interrupt" /\ streak >= 0) => hcount = streak

\* The second of two interrupts in a row that followed a normal statement.
C7_Witness ==
    loopPc = "handler" /\ hkind = "interrupt" /\ streak = 2 /\ hcount = 2 /\ nReads = 3

\* C8: every iteration of the loop on a result that is not an interrupt
\* leaves the interrupt count at 0.
C8_NonInterruptResets ==
    [][(loopPc \in {"classify", "handler"} /\ loopPc' = "check" /\ err # "interrupt")
          => interruptCount' = 0]_vars

\* C9: when the run loop has ended, a Wait that is pending can return: the
\* channel it reads is closed.
C9_WaitReturnsAfterLoopEnds ==
    (loopPc = "done" /\ hostPc = "wait") => waitChan \in closedChans

\* C10: while a handler executes the loop has no statement goroutine and no
\* read of its own; a ReadLine of the handler makes a physical read of its
\* own and is never dropped: it waits for the mutex only while its holder
\* is blocked in the line source, and then only for the line source itself;
\* the loop starts its next read only from its check, after the handler has
\* returned.
C10_HandlerReadLine ==
    /\ [](loopPc = "handler" => (sr[runs].pc = "none" /\ rl[Stmt(runs)].pc = "idle"))
    /\ [](rl[Handler].pc # "returned")
    /\ [][(rl[Handler].pc = "lock" /\ rl'[Handler].pc # "lock")
             => (rl'[Handler].pc = "reading" /\ nReads' = nReads + 1
                 /\ rl'[Handler].id = nReads')]_vars
    /\ [][\A k \in Runs : (sr[k].pc = "none" /\ sr'[k].pc # "none")
                              => (k = runs /\ loopPc = "check" /\ hpc = "none")]_vars
    /\ [](rl[Handler].pc # "idle" => (loopPc = "handler" /\ hpc = "readline"))
    /\ [](rl[Handler].pc = "lock" => (mutex = NoOne \/ rl[mutex].pc = "reading"))
    /\ [](rl[Handler].pc = "reading" => mutex = Handler)

\* A handler is blocked in ReadLine, its physical read outstanding.
C10_Witness == loopPc = "handler" /\ hpc = "readline" /\ rl[Handler].pc = "reading"

\* The result of the last read made for the statement.
LastRead == asm.in[Len(asm.in)]

\* Every read made for the statement returned a line and no error.
AllReadsOk == \A i \in 1..Len(asm.in) : asm.in[i].err = "nil"

\* C11: when the last read of a statement ended with an interrupt or with
\* end-of-stream, Shell.read returns that same error, whatever text had been
\* assembled.
C11_ReadErrorPropagates ==
    (asm.pc = "done" /\ LastRead.err \in {"interrupt", "eof"}) => asm.err = LastRead.err

\* The texts of lines i..j of the statement joined by newlines.
RECURSIVE JoinLines(_, _)
JoinLines(i, j) ==
    IF i > j THEN <<>>
    ELSE IF i = j THEN asm.in[i].text
    ELSE asm.in[i].text \o Newline \o JoinLines(i + 1, j)

\* The statement read is a heredoc 'P <<T', b1, ..., bm, 'T' with T not
\* empty, read without an error.
IsHeredocInput ==
    /\ asm.pc = "done"
    /\ AllReadsOk
    /\ Len(asm.in) >= 2
    /\ Contains(asm.in[1].text, HereMark)
    /\ LET T == TrimSpace(SplitN2(asm.in[1].text, HereMark)[2])
       IN /\ T # <<>>
          /\ LastRead.text = T
          /\ \A i \in 2..(Len(asm.in) - 1) : asm.in[i].text # T

\* C12: a heredoc 'P <<T', b1, ..., bm, 'T' gives the words of P followed
\* by one argument, b1..bm joined by newlines with nothing before or after.
C12_HeredocArgs ==
    IsHeredocInput =>
        asm.args = Append(Split(SplitN2(asm.in[1].text, HereMark)[1]).args,
                          JoinLines(2, Len(asm.in) - 1))

WordsOf(i) ==
    IF i < Len(asm.in)
    THEN Split(TrimSuffix(TrimRight(asm.in[i].text), Backslash))
    ELSE Split(asm.in[i].text)

RECURSIVE ConcatWords(_, _)
ConcatWords(i, j) == IF i > j THEN <<>> ELSE WordsOf(i).args \o ConcatWords(i + 1, j)

\* The statement read is l1..ln without a heredoc marker, every line but the
\* last ending with a backslash once its trailing white space is trimmed,
\* read without an error, each line made of whole words.
IsContinuedInput ==
    /\ asm.pc = "done"
    /\ AllReadsOk
    /\ \A i \in 1..Len(asm.in) :
          /\ ~Contains(asm.in[i].text, HereMark)
          /\ WordsOf(i).err = "nil"
          /\ (i < Len(asm.in)) = HasSuffix(TrimRight(asm.in[i].text), Backslash)

\* C14: lines l1..ln joined by continuation backslashes give, after n reads,
\* the words of l1, ..., ln in order with the backslashes removed.
C14_ContinuationArgs ==
    IsContinuedInput => (asm.err = "nil" /\ asm.args = ConcatWords(1, Len(asm.in)))

\* C15: an empty input line with no continuation before it ends the statement
\* at once with an empty argument vector and no error, and the run loop that
\* gets an empty argument vector calls no handler (command, NotFound,
\* interrupt or EOF), prints nothing and goes back to the top of the loop for
\* the next read.
C15_EmptyLineSkipped ==
    /\ ~HeredocF(FALSE, <<>>, <<>>).cont
    /\ ReadTail(<<>>, FALSE, <<>>, "nil") = [panic |-> FALSE, args |-> <<>>, err |-> "nil"]
    /\ [][(loopPc = "classify" /\ err = "nil" /\ line = <<>> /\ loopPc' # "classify")
              => (loopPc' = "check" /\ hkind' = "none" /\ hpc' = "none"
                    /\ printed' = printed /\ active' = active)]_vars
C15_Witness ==
    loopPc = "classify" /\ err = "nil" /\ line = <<>> /\ generic /\ eof /\ interrupt

\* C16: in the statement assembly of the running loop the first physical
\* read is made with the standard prompt and every later one with the
\* continuation prompt, and when the assembly returns the reader is back in
\* standard-prompt mode.
C16_PromptModes ==
    [][\A k \in Runs :
          /\ (rl[Stmt(k)].pc = "lock" /\ rl'[Stmt(k)].pc = "reading" /\ ~sr[k].orphan)
                => (readingMulti <=> sr[k].cur >= 1)
          /\ (sr[k].pc = "wait" /\ sr'[k].pc = "done" /\ crashed' = "none"
                 /\ ~sr[k].orphan)
                => ~readingMulti']_vars

\* The number of leading words of args that FindCmd at node c can consume:
\* the longest prefix that is a path of child names from c.
Consumed(c, args) ==
    CHOOSE k \in 0..Len(args) :
        /\ HasPath(c, SubSeq(args, 1, k))
        /\ \A j \in (k + 1)..Len(args) : ~HasPath(c, SubSeq(args, 1, j))

\* C17: at every node of every tree, FindCmd(args) consumes the longest
\* leading run of words that each name a child of the node reached so far,
\* and returns that node (no command when it consumed none) with exactly the
\* words it did not consume, in order; it never goes on after a word that
\* names no child.
C17_FindCmdGreedy ==
    \A path \in Paths(tree.root), args \in ArgVectors :
        LET c == NodeAt(tree.root, path)
            r == FindCmd(c, args)
            k == Consumed(c, args)
        IN /\ r.found = (k > 0)
           /\ r.found => r.cmd = NodeAt(c, SubSeq(args, 1, k))
           /\ r.args = SubSeq(args, k + 1, Len(args))
           /\ (args = <<>>) => (~r.found /\ r.args = <<>>)
           /\ (Len(args) = 1 /\ args[1] \in DOMAIN c.children)
                 => (r.found /\ r.cmd = c.children[args[1]] /\ r.args = <<>>)
           /\ (args # <<>> /\ args[1] \notin DOMAIN c.children)
                 => (~r.found /\ r.args = args)
\* A walk that stops after one word, at a word which names a child of the
\* root but none of the node reached, with a name of such a child after it.
C17_Witness ==
    \E args \in ArgVectors :
        /\ Len(args) = 3
        /\ FindCmd(tree.root, args).found
        /\ FindCmd(tree.root, args).cmd = NodeAt(tree.root, <<args[1]>>)
        /\ FindCmd(tree.root, args).args = <<args[2], args[3]>>
        /\ args[2] \in DOMAIN tree.root.children
        /\ args[2] \notin DOMAIN NodeAt(tree.root, <<args[1]>>).children
        /\ args[3] \in DOMAIN NodeAt(tree.root, <<args[1]>>).children

\* C19: after AddCmd(c) on a node, FindCmd([c.Name]) at that node returns c
\* with no remaining args; the node has one child more when it had none of
\* that name and as many as before when it had one, which c has replaced.
C19_AddCmd ==
    [][tree'.last.op = "AddCmd"
         => LET c == tree'.last.cmd
                before == NodeAt(tree.root, tree'.last.path)
                after == NodeAt(tree'.root, tree'.last.path)
                r == FindCmd(after, <<c.Name>>)
                more == IF c.Name \in DOMAIN before.children THEN 0 ELSE 1
            IN /\ r.found /\ r.cmd = c /\ r.args = <<>>
               /\ Len(Children(after)) = Len(Children(before)) + more
               /\ Cardinality(DOMAIN after.children)
                     = Cardinality(DOMAIN before.children) + more]_vars
\* A registration under a name the node had, beside another child.
C19_Witness ==
    /\ tree.last.op = "AddCmd" /\ tree.last.had
    /\ NodeAt(tree.root, tree.last.path).children[tree.last.name] = tree.last.cmd
    /\ Len(Children(NodeAt(tree.root, tree.last.path))) = 2

\* C20: after DeleteCmd(name) on a node, Children() of the node holds no
\* child named name and FindCmd([name, ...]) at the node returns no command
\* and all of its args, whatever follows name; every other child of the node
\* is as it was, and the tree is unchanged when the node had no such child.
C20_DeleteCmd ==
    [][tree'.last.op = "DeleteCmd"
         => LET name == tree'.last.name
                before == NodeAt(tree.root, tree'.last.path)
                after == NodeAt(tree'.root, tree'.last.path)
            IN /\ \A i \in 1..Len(Children(after)) : Children(after)[i].Name # name
               /\ \A rest \in SeqsUpTo(Words, MaxArgs - 1) :
                     LET r == FindCmd(after, <<name>> \o rest)
                     IN ~r.found /\ r.args = <<name>> \o rest
               /\ \A m \in Words \ {name} :
                     /\ (m \in DOMAIN after.children) = (m \in DOMAIN before.children)
                     /\ m \in DOMAIN before.children
                           => after.children[m] = before.children[m]
               /\ name \notin DOMAIN before.children => tree'.root = tree.root]_vars
\* A child was deleted from a node that keeps another child with a
\* subcommand of its own.
C20_Witness ==
    /\ tree.last.op = "DeleteCmd" /\ tree.last.had /\ tree.last.path = <<>>
    /\ \E m \in DOMAIN tree.root.children : DOMAIN tree.root.children[m].children # {}

Resolved ==
    FindCmd(dispRoot, IF disp.ignoreCase
                      THEN [i \in 1..Len(disp.out.line) |-> ToLower(disp.out.line[i])]
                      ELSE disp.out.line)

\* C21: when the line resolves to a command that has no Func, or AutoHelp is
\* on and the remaining args are exactly ["help"], Process prints that
\* command's help text, calls no handler (neither Func nor NotFound) and
\* returns handled with no error; with AutoHelp off a command that has a Func
\* is called, once, with Args ["help"].
C21_HelpInsteadOfHandler ==
    (disp.out.op = "Process" /\ Resolved.found)
      => LET help == Resolved.cmd.Func = "nil"
                       \/ (disp.autoHelp /\ Resolved.args = <<HelpWord>>)
         IN /\ help => /\ disp.out.printed = <<[help |-> Resolved.cmd]>>
                       /\ disp.out.called = <<>>
                       /\ disp.out.h.handled /\ disp.out.err = "nil"
            /\ (~disp.autoHelp /\ Resolved.cmd.Func # "nil" /\ Resolved.args = <<HelpWord>>)
                 => /\ disp.out.called
                         = <<[h |-> "cmd", cmd |-> Resolved.cmd, Args |-> <<HelpWord>>]>>
                    /\ disp.out.printed = <<>>
\* "a b help" with AutoHelp off and a NotFound handler set: b's Func is
\* called with ["help"].
C21_Witness ==
    /\ disp.out.op = "Process" /\ ~disp.autoHelp /\ disp.generic
    /\ disp.out.line = << <<"a">>, <<"b">>, HelpWord >>
    /\ Len(disp.out.called) = 1 /\ disp.out.called[1].Args = <<HelpWord>>

\* C22: when the first word of a non-empty line names no top-level command,
\* Process calls the NotFound handler, if one is set, exactly once with the
\* whole line as Args, and returns errNoHandler if none is set; no command's
\* Func is called and no help text is printed.
C22_NotFound ==
    (disp.out.op = "Process" /\ disp.out.line # <<>> /\ ~Resolved.found)
      => /\ disp.generic
              => disp.out.called
                   = <<[h |-> "generic", cmd |-> NewCmd(<<>>), Args |-> disp.out.line]>>
         /\ ~disp.generic => (disp.out.called = <<>> /\ disp.out.err = "errNoHandler")
         /\ disp.out.printed = <<>>

\* The words of a line with their letters in lower case.
LowerLine(l) == [i \in 1..Len(l) |-> ToLower(l[i])]

\* C23: with IgnoreCase(true) and the commands registered in lower case,
\* every line that differs from the processed one only in the case of its
\* letters resolves to the same command; with IgnoreCase(false) a word that
\* differs in case from the name of a child of the node reached does not
\* match it, so the walk stops in front of it.
C23_IgnoreCase ==
    disp.out.op = "Process"
      => /\ disp.ignoreCase
              => \A l \in DispLines :
                    LowerLine(l) = LowerLine(disp.out.line)
                      => LET h == handleCommand(dispRoot, TRUE, disp.autoHelp, l)
                         IN /\ h.handled = disp.out.h.handled
                            /\ h.handled => h.cmd = disp.out.h.cmd
         /\ ~disp.ignoreCase
              => \A i \in 1..Len(disp.out.line) :
                    LET w == disp.out.line[i]
                        at == FindCmd(dispRoot, SubSeq(disp.out.line, 1, i - 1))
                        node == IF i = 1 THEN dispRoot ELSE at.cmd
                    IN (/\ i = 1 \/ (at.found /\ at.args = <<>>)
                        /\ w \notin DOMAIN node.children
                        /\ ToLower(w) \in DOMAIN node.children)
                         => /\ disp.out.h.handled = (i > 1)
                            /\ disp.out.h.args = SubSeq(disp.out.line, i, Len(disp.out.line))
\* "A B" with IgnoreCase on reaches the subcommand b of a.
C23_Witness ==
    /\ disp.out.op = "Process" /\ disp.ignoreCase
    /\ disp.out.line = << <<"A">>, <<"B">> >>
    /\ disp.out.h.handled /\ disp.out.h.cmd = dispRoot.children[<<"a">>].children[<<"b">>]

\* The node that the words w lead to from the root of the completer: the
\* deepest one their longest matching prefix reaches, the root when none.
WalkedTo(w) == NodeAt(compRoot, SubSeq(w, 1, Consumed(compRoot, w)))
\* The suffixes after p of the child names of node that start with p.
Suffixes(node, p) ==
    {SubStr(c, Len(p) + 1, Len(c)) : c \in {d \in DOMAIN node.children : HasPrefix(d, p)}}
SuggestionSet == {comp.suggestions[i] : i \in 1..Len(comp.suggestions)}

Stripped ==
    LET words == DoWords(comp.line)
        inWord == Len(words) > 0 /\ comp.pos >= 1 /\ comp.line[comp.pos] # " "
        p == IF inWord THEN words[Len(words)] ELSE <<>>
    IN Suffixes(WalkedTo(IF inWord THEN SubSeq(words, 1, Len(words) - 1) ELSE words), p)

\* C25: when completion yields exactly one suggestion and it is empty after
\* the prefix is stripped, Do returns the single suggestion " "; in every
\* other case it returns the stripped suggestions as they are, an empty one
\* among several included.
C25_BlankForFullName ==
    (comp.pc = "done" /\ ~comp.disabled)
      => IF Stripped = {<<>>}
         THEN comp.suggestions = << <<" ">> >>
         ELSE SuggestionSet = Stripped /\ Len(comp.suggestions) = Cardinality(Stripped)
\* "add" with the cursor at its end: the prefix is the whole name of the one
\* command that starts with it.
C25_Witness ==
    /\ comp.pc = "done" /\ ~comp.disabled
    /\ comp.line = <<"a", "d", "d">> /\ comp.pos = 3
    /\ comp.suggestions = << <<" ">> >> /\ comp.length = 3

\* C26: Children() returns every direct child of the node once, in
\* ascending order of Name, whatever the order in which the children were
\* added and in which the map is ranged over.
C26_ChildrenSorted ==
    tree.last.op = "Children"
      => LET out == tree.last.out
         IN /\ Len(out) = Cardinality(DOMAIN tree.root.children)
            /\ {out[i] : i \in 1..Len(out)}
                  = {tree.root.children[n] : n \in DOMAIN tree.root.children}
            /\ \A i \in 1..(Len(out) - 1) : StrLess(out[i].Name, out[i + 1].Name)
\* All four children: B, a, ab, help.
C26_Witness ==
    /\ tree.last.op = "Children"
    /\ Len(tree.last.out) = 4
    /\ [i \in 1..4 |-> tree.last.out[i].Name] = << <<"B">>, <<"a">>, <<"a", "b">>, HelpWord >>

\* C27: HelpText of a node starts with its LongHelp if that is not empty,
\* else its Help if that is not empty, else "<Name> has no help" if it has a
\* name, else nothing; a "Commands:" table follows exactly when the node has
\* a child whose name is not "help", and it lists every direct child, "help"
\* included, with its name and Help in ascending order of name.
C27_HelpText ==
    tree.last.op = "HelpText"
      => LET c == tree.root
             out == tree.last.out
             head == IF LongHelpOf(c) # <<>> THEN <<LongHelpOf(c)>>
                     ELSE IF HelpOf(c) # <<>> THEN <<HelpOf(c)>>
                     ELSE IF c.Name # <<>> THEN <<c.Name \o <<" ", "has no help">>>>
                     ELSE <<>>
             table == \E n \in DOMAIN c.children : n # HelpWord
             hl == 2 * Len(head)
             rows == SubStr(out, hl + 3, Len(out) - 1)
         IN /\ Len(head) = 1 => (out[1] = EmptyLine /\ out[2] = TextLine(head[1]))
            /\ ~table => Len(out) = hl
            /\ table =>
                  /\ out[hl + 1] = EmptyLine /\ out[hl + 2] = TextLine(CommandsTitle)
                  /\ out[Len(out)] = EmptyLine
                  /\ Len(rows) = Cardinality(DOMAIN c.children)
                  /\ {<<rows[i].a, rows[i].b>> : i \in 1..Len(rows)}
                        = {<<n, HelpOf(c.children[n])>> : n \in DOMAIN c.children}
                  /\ \A i \in 1..Len(rows) : rows[i].k = "row"
                  /\ \A i \in 1..(Len(rows) - 1) : StrLess(rows[i].a, rows[i + 1].a)
\* A named root without a help text, with the children a and help.
C27_Witness ==
    /\ tree.last.op = "HelpText"
    /\ tree.root.Name = <<"r">> /\ HelpOf(tree.root) = <<>> /\ LongHelpOf(tree.root) = <<>>
    /\ DOMAIN tree.root.children = {<<"a">>, HelpWord}
    /\ Len(tree.last.out) = 7

\* C28: Shell.read returns a pair (ArgVector, error) for every sequence of
\* read results and never indexes out of range: no statement ends in the
\* panic of strings.SplitN(s[1], "\n", 2)[1].
C28_ReadReturns == asm.pc # "panic"

\* C29: Stop and Close may be called any number of times and by several
\* goroutines at once: the halt channel of a run is closed at most once, so
\* no call fails with the panic of closing a closed channel.
C29_HaltClosedOnce == crashed # "close"

\* C30: a shell has at most one dispatch loop: Start or Run called while the
\* shell is active does not start a second one.
C30_OneLoop == Loops <= 1

\* C31: a read result is handled as exactly one of interrupt, end-of-stream
\* or normal: while the loop holds an end-of-stream result it invokes no
\* command handler and no NotFound handler, whatever ArgVector came with it.
C31_EofNotDispatched ==
    (loopPc = "handler" /\ hkind \in {"cmd", "generic"}) => err # "eof"

\* C32: the fan-out reader sends the result of a physical read to the
\* consumers registered for that read and to no other: no send is made to a
\* consumer registered for another read, every consumer that returned got
\* the result of its own read, and no send fails.
C32_FanOutOnce ==
    /\ ~fan.panic
    /\ \A m \in fan.sends : fan.call[m[1]].reg = m[2]
    /\ \A c \in FanCalls : fan.call[c].pc = "done" => fan.call[c].got = fan.call[c].reg

\* C33: every Shell.readLine call returns a result, provided every physical
\* read returns: no caller waits on its consumer channel for ever, whether
\* or not another read was in progress when it arrived.
C33_ReadLineReturns ==
    \A c \in RdCalls : (rd.call[c].pc = "go") ~> (rd.call[c].pc = "done")
\* A call made while another call was reading has returned.
C33_Witness == \E c \in RdCalls : rd.call[c].pc = "done" /\ rd.call[c].late

\* C34: a password read and a line read never use the line source at the
\* same time: at most one physical read of either kind is outstanding.
C34_OneReadOfEitherKind == RdOutstanding <= 1

\* C35: where Stop sends on the halt channel made in New, a Stop affects
\* only the run that was active when it was called: after a later Start no
\* iteration gives up its read for a halt signal left over from an earlier
\* run, so no line entered after the restart is lost.
C35_NoLeftoverHalt == old.orphans = {}

\* C36: Do never reads outside the line buffer: for every line and every
\* cursor position from 0 to the length of the line it returns a result.
C36_DoInRange == comp.pc # "panic"

\* C37: with IgnoreCase on, case folding serves only to match command names:
\* the Args a command handler gets are the last words of the line exactly as
\* typed, and the Args the NotFound handler gets are the line as typed.
C37_ArgsAsTyped ==
    (disp.out.op = "Process" /\ disp.ignoreCase)
      => \A i \in 1..Len(disp.out.called) :
            LET Args == disp.out.called[i].Args
                typed == disp.out.line
            IN /\ Len(Args) <= Len(typed)
               /\ Args = SubStr(typed, Len(typed) - Len(Args) + 1, Len(typed))
               /\ disp.out.called[i].h = "generic" => Args = typed

\* C38: the result of Do(line, pos) depends only on the text before the
\* cursor: every line buffer that agrees with the line on its first pos
\* characters, and on which Do returns, gives the same suggestions and the
\* same length.
C38_DoPrefixOnly ==
    comp.pc = "done"
      => \A l2 \in CompLines :
            (comp.pos <= Len(l2) /\ ~DoPanics(l2, comp.pos)
               /\ SubStr(l2, 1, comp.pos) = SubStr(comp.line, 1, comp.pos))
              => [pc |-> "done", suggestions |-> comp.suggestions, length |-> comp.length]
                   \in DoOutcomes(l2, comp.pos, comp.disabled)

\* C39: ReadMultiLinesFunc(f) passes each line read to f and stops after the
\* first line for which f returns false or whose read failed; it returns all
\* the lines read, in order, joined by newlines, the last one included.
\* ReadMultiLines(t) stops at the first line whose trimmed text ends with t
\* (or whose read failed) and returns the lines with that line.
C39_ReadMultiLines ==
    LET n == Len(asm.in)
        goesOn(i) == asm.in[i].cont /\ asm.in[i].err = "nil"
        endsWith(i, t) == LET x == TrimSpace(asm.in[i].text)
                          IN Len(x) >= Len(t) /\ SubStr(x, Len(x) - Len(t) + 1, Len(x)) = t
    IN /\ asm.pc \in {"func", "lines"} => \A i \in 1..n : goesOn(i)
       /\ asm.pc \in {"doneFunc", "doneLines"}
            => /\ n >= 1
               /\ \A i \in 1..(n - 1) : goesOn(i)
               /\ ~goesOn(n)
               /\ asm.lines = JoinLines(1, n)
       /\ asm.pc \in {"lines", "doneLines"}
            => /\ \A i \in 1..n : asm.in[i].cont = ~endsWith(i, asm.tok)
               /\ asm.pc = "doneLines" => (endsWith(n, asm.tok) \/ asm.in[n].err # "nil")
\* ReadMultiLines("E") has read three lines, the last one " E".
C39_Witness ==
    /\ asm.pc = "doneLines" /\ asm.tok = <<"E">>
    /\ Len(asm.in) = 3 /\ asm.in[3].text = <<" ", "E">> /\ asm.in[3].err = "nil"
    /\ asm.lines = <<"a">> \o Newline \o <<"b", " ", "c">> \o Newline \o <<" ", "E">>

\* C40: for a non-empty option list, every initial selection and every
\* sequence of up, down and space key presses, MultiChoice returns -1 or an
\* index of an option, and Checklist returns [-1] or a list of distinct
\* indices of options; neither fails.
C40_ValidChoice ==
    /\ sel.pc # "panic"
    /\ sel.pc = "done"
         => LET res == sel.result
                valid(i) == 0 <= i /\ i < sel.n
            IN IF sel.multi
               THEN \/ res = <<-1>>
                    \/ /\ \A i \in 1..Len(res) : valid(res[i])
                       /\ \A i, j \in 1..Len(res) : i # j => res[i] # res[j]
               ELSE Len(res) = 1 /\ (res[1] = -1 \/ valid(res[1]))

====
